---- MODULE Spec2Model ----
(***************************************************************************)
(* Model of cirf: the VFS builder (src/src/vfs.c), the manifest            *)
(* interpreter (src/src/config.c), the code generator (src/src/codegen.c)  *)
(* and the runtime navigation library (src/src/runtime.c).                 *)
(*                                                                         *)
(* C strings are sequences of one-character strings, so that strrchr,      *)
(* strtok_r, strncmp and the path joins are computed as the code computes  *)
(* them.  Pointers are indices into the sequence that holds the objects;   *)
(* NULL is 0.  Allocation is assumed to succeed.                           *)
(***************************************************************************)
EXTENDS Integers, Sequences, FiniteSets, TLC

VARIABLES folders, files, last, img, mounts

vars == <<folders, files, last, img, mounts>>

NULL == 0

\* ------------------------------------------------------------------ bounds
\* folders other than the root, plus files, that the builder calls may create
MaxNodes == 3
\* top-level entries of a manifest
MaxEntries == 2

\* ------------------------------------------------------- string helpers
SLASH == "/"

\* strrchr(s, '/') as a 1-based position, 0 when there is none
RECURSIVE strrchr_slash(_, _)
strrchr_slash(s, i) ==
    IF i = 0 THEN 0
    ELSE IF s[i] = SLASH THEN i
    ELSE strrchr_slash(s, i - 1)

\* the successive tokens strtok_r(path, "/") returns
RECURSIVE strtok_r(_, _)
strtok_r(s, cur) ==
    IF s = <<>> THEN (IF cur = <<>> THEN <<>> ELSE <<cur>>)
    ELSE IF Head(s) = SLASH
         THEN (IF cur = <<>> THEN <<>> ELSE <<cur>>) \o strtok_r(Tail(s), <<>>)
         ELSE strtok_r(Tail(s), Append(cur, Head(s)))

\* ------------------------------------------------------------ VFS builder
\* The tree under construction: all folder objects and all file objects.
Tree == [folders |-> folders, files |-> files]

ROOT == 1

vfs_create_root ==
    [folders |-> << [name |-> <<>>, path |-> <<>>, parent |-> NULL,
                     children |-> <<>>, files |-> <<>>, metadata |-> <<>>] >>,
     files |-> <<>>]

RECURSIVE find_folder_in(_, _, _)
find_folder_in(T, ids, name) ==
    IF ids = <<>> THEN NULL
    ELSE IF T.folders[Head(ids)].name = name THEN Head(ids)
    ELSE find_folder_in(T, Tail(ids), name)

folder_find_child_NoMatch(T, parent, name) == NULL

folder_find_child(T, parent, name) ==
    find_folder_in(T, T.folders[parent].children, name)

\* "Build full path": parent path, a separator unless the parent path is
\* empty, then the name
vfs_build_path(parent_path, name) ==
    IF Len(parent_path) > 0 THEN parent_path \o <<SLASH>> \o name ELSE name

vfs_add_folder_NoParent(T, parent, name) ==
    LET id == Len(T.folders) + 1
        folder == [name |-> name,
                   path |-> vfs_build_path(T.folders[parent].path, name),
                   parent |-> NULL,
                   children |-> <<>>, files |-> <<>>, metadata |-> <<>>]
    IN  IF folder_find_child(T, parent, name) # NULL
        THEN [T |-> T, ret |-> folder_find_child(T, parent, name)]
        ELSE [T |-> [T EXCEPT !.folders =
                        Append([@ EXCEPT ![parent].children = Append(@, id)],
                               folder)],
              ret |-> id]

vfs_add_folder(T, parent, name) ==
    IF parent = NULL THEN [T |-> T, ret |-> NULL]
    ELSE LET existing == folder_find_child(T, parent, name)
             id == Len(T.folders) + 1
             folder == [name |-> name,
                        path |-> vfs_build_path(T.folders[parent].path, name),
                        parent |-> parent,
                        children |-> <<>>, files |-> <<>>, metadata |-> <<>>]
         IN  IF existing # NULL
             THEN [T |-> T, ret |-> existing]
             ELSE [T |-> [T EXCEPT !.folders =
                             Append([@ EXCEPT ![parent].children = Append(@, id)],
                                    folder)],
                   ret |-> id]

\* the while(token && current) loop of vfs_find_folder
RECURSIVE vfs_find_folder_walk(_, _, _)
vfs_find_folder_walk(T, current, tokens) ==
    IF tokens = <<>> \/ current = NULL THEN current
    ELSE vfs_find_folder_walk(T, folder_find_child(T, current, Head(tokens)),
                              Tail(tokens))

vfs_find_folder(T, root, path) ==
    IF root = NULL THEN NULL
    ELSE IF path = <<>> THEN root
    ELSE vfs_find_folder_walk(T, root, strtok_r(path, <<>>))

\* the while(token && current) loop of vfs_ensure_folder
RECURSIVE vfs_ensure_folder_walk(_, _, _)
vfs_ensure_folder_walk(T, current, tokens) ==
    IF tokens = <<>> \/ current = NULL THEN [T |-> T, ret |-> current]
    ELSE LET child == folder_find_child(T, current, Head(tokens))
             r == IF child = NULL THEN vfs_add_folder(T, current, Head(tokens))
                  ELSE [T |-> T, ret |-> child]
         IN  vfs_ensure_folder_walk(r.T, r.ret, Tail(tokens))

vfs_ensure_folder(T, root, path) ==
    IF root = NULL THEN [T |-> T, ret |-> NULL]
    ELSE IF path = <<>> THEN [T |-> T, ret |-> root]
    ELSE vfs_ensure_folder_walk(T, root, strtok_r(path, <<>>))

\* ------------------------------------------------------------- MIME table
TEXT_X_C == <<"t","e","x","t","/","x","-","c">>
TEXT_X_CPP == <<"t","e","x","t","/","x","-","c","+","+">>
OCTET_STREAM == <<"a","p","p","l","i","c","a","t","i","o","n","/",
                  "o","c","t","e","t","-","s","t","r","e","a","m">>

\* strrchr(s, '.') as a 1-based position, 0 when there is none
RECURSIVE strrchr_dot(_, _)
strrchr_dot(s, i) ==
    IF i = 0 THEN 0
    ELSE IF s[i] = "." THEN i
    ELSE strrchr_dot(s, i - 1)

\* the rows of mime_table whose extension is written with the letters c and h
mime_from_extension(extension) ==
    LET ext == IF extension # <<>> /\ Head(extension) = "."
               THEN Tail(extension) ELSE extension
    IN  IF ext = <<"c">> \/ ext = <<"h">> THEN TEXT_X_C
        ELSE IF ext = <<"c","c">> \/ ext = <<"h","h">> THEN TEXT_X_CPP
        ELSE OCTET_STREAM

mime_from_path(path) ==
    LET dot == strrchr_dot(path, Len(path))
    IN  IF dot = 0 \/ dot = 1 THEN OCTET_STREAM
        ELSE mime_from_extension(SubSeq(path, dot + 1, Len(path)))

\* ------------------------------------------------------------------ files
RECURSIVE find_file_in(_, _, _)
find_file_in(T, ids, name) ==
    IF ids = <<>> THEN NULL
    ELSE IF T.files[Head(ids)].name = name THEN Head(ids)
    ELSE find_file_in(T, Tail(ids), name)

folder_find_file_NoMatch(T, folder, name) == NULL

folder_find_file(T, folder, name) ==
    find_file_in(T, T.folders[folder].files, name)

vfs_add_file_Replace(T, parent, name, source_path) ==
    LET old == folder_find_file(T, parent, name)
    IN  IF old # NULL
        THEN [T |-> [T EXCEPT !.files[old].source_path = source_path], ret |-> NULL]
        ELSE [T |-> [folders |-> [T.folders EXCEPT ![parent].files =
                                      Append(@, Len(T.files) + 1)],
                     files |-> Append(T.files,
                                  [name |-> name,
                                   path |-> vfs_build_path(T.folders[parent].path, name),
                                   source_path |-> source_path,
                                   mime |-> mime_from_path(name),
                                   loaded |-> FALSE, data |-> <<>>, size |-> 0,
                                   metadata |-> <<>>,
                                   parent |-> parent])],
              ret |-> Len(T.files) + 1]

\* data == NULL is loaded = FALSE; calloc leaves size 0 and metadata empty
vfs_add_file(T, parent, name, source_path) ==
    IF parent = NULL THEN [T |-> T, ret |-> NULL]
    ELSE IF folder_find_file(T, parent, name) # NULL
         THEN [T |-> T, ret |-> NULL]
    ELSE LET id == Len(T.files) + 1
             file == [name |-> name,
                      path |-> vfs_build_path(T.folders[parent].path, name),
                      source_path |-> source_path,
                      mime |-> mime_from_path(name),
                      loaded |-> FALSE, data |-> <<>>, size |-> 0,
                      metadata |-> <<>>,
                      parent |-> parent]
         IN  [T |-> [folders |-> [T.folders EXCEPT ![parent].files = Append(@, id)],
                     files |-> Append(T.files, file)],
              ret |-> id]

vfs_find_file(T, root, path) ==
    LET last_slash == strrchr_slash(path, Len(path))
        folder == vfs_find_folder(T, root, SubSeq(path, 1, last_slash - 1))
    IN  IF root = NULL THEN NULL
        ELSE IF last_slash = 0 THEN folder_find_file(T, root, path)
        ELSE IF folder = NULL THEN NULL
        ELSE folder_find_file(T, folder, SubSeq(path, last_slash + 1, Len(path)))

\* ------------------------------------------------ builder calls (inputs)
FolderNames == { <<>>, <<"c">>, <<"h">> }
FileNames == { <<>>, <<"c">>, <<"c", ".", "h">> }
BuilderSources == { <<"s">>, <<"t">> }
EnsurePaths == { <<>>, <<"c">>, <<"h">>, <<"c", "/", "h">>, <<"/", "c">>,
                 <<"h", "/", "/", "c">>, <<"c", "/">> }

Init ==
    /\ folders = vfs_create_root.folders
    /\ files = vfs_create_root.files
    /\ last = [op |-> "vfs_create_root", path |-> <<>>, ret |-> ROOT]
    /\ img = [ok |-> FALSE]
    /\ mounts = <<>>

AddFolder(parent, name) ==
    LET r == vfs_add_folder(Tree, parent, name)
    IN  /\ Len(r.T.folders) - 1 + Len(r.T.files) <= MaxNodes
        /\ folders' = r.T.folders
        /\ files' = r.T.files
        /\ last' = [op |-> "vfs_add_folder", path |-> name, ret |-> r.ret]
        /\ UNCHANGED <<img, mounts>>

EnsureFolder(path) ==
    LET r == vfs_ensure_folder(Tree, ROOT, path)
    IN  /\ Len(r.T.folders) - 1 + Len(r.T.files) <= MaxNodes
        /\ folders' = r.T.folders
        /\ files' = r.T.files
        /\ last' = [op |-> "vfs_ensure_folder", path |-> path, ret |-> r.ret]
        /\ UNCHANGED <<img, mounts>>

AddFile(parent, name, source_path) ==
    LET r == vfs_add_file(Tree, parent, name, source_path)
    IN  /\ Len(r.T.folders) - 1 + Len(r.T.files) <= MaxNodes
        /\ folders' = r.T.folders
        /\ files' = r.T.files
        /\ last' = [op |-> "vfs_add_file", path |-> name, ret |-> r.ret,
                    parent |-> parent, source_path |-> source_path]
        /\ UNCHANGED <<img, mounts>>

Next ==
    \/ \E parent \in 1..Len(folders), name \in FolderNames : AddFolder(parent, name)
    \/ \E path \in EnsurePaths : EnsureFolder(path)
    \/ \E parent \in 1..Len(folders), name \in FileNames, source_path \in BuilderSources :
          AddFile(parent, name, source_path)

Spec == Init /\ [][Next]_vars

\* ------------------------------------------------- manifest interpreter
\* path helpers of config.c
path_dirname(path) ==
    LET last_slash == strrchr_slash(path, Len(path))
    IN  IF last_slash = 0 THEN <<>>
        ELSE IF last_slash = 1 THEN <<SLASH>>
        ELSE SubSeq(path, 1, last_slash - 1)

path_basename(path) ==
    LET last_slash == strrchr_slash(path, Len(path))
    IN  IF last_slash # 0 THEN SubSeq(path, last_slash + 1, Len(path)) ELSE path

\* while(b[0] == '.' && b[1] == '/') b += 2;
RECURSIVE skip_dot_slash(_)
skip_dot_slash(b) ==
    IF Len(b) >= 2 /\ b[1] = "." /\ b[2] = SLASH
    THEN skip_dot_slash(SubSeq(b, 3, Len(b)))
    ELSE b

path_join(a, b) ==
    IF a = <<>> THEN b
    ELSE IF b = <<>> THEN a
    ELSE LET b2 == skip_dot_slash(b)
         IN  IF a[Len(a)] # SLASH THEN a \o <<SLASH>> \o b2 ELSE a \o b2

\* vfs_add_metadata appends one (key, value) entry at the end of the list
vfs_add_metadata(list, key, value) == Append(list, <<key, value>>)

\* vfs_get_metadata: NULL is <<>>, a value v is << v >>
RECURSIVE vfs_get_metadata(_, _)
vfs_get_metadata(list, key) ==
    IF list = <<>> THEN <<>>
    ELSE IF Head(list)[1] = key THEN << Head(list)[2] >>
    ELSE vfs_get_metadata(Tail(list), key)

\* load_metadata: the string-valued members of obj.metadata, in order
RECURSIVE load_metadata_loop(_, _)
load_metadata_loop(members, list) ==
    IF members = <<>> THEN list
    ELSE load_metadata_loop(Tail(members),
            IF Head(members).string
            THEN vfs_add_metadata(list, Head(members).key, Head(members).value)
            ELSE list)

load_metadata(obj, list) == load_metadata_loop(obj.metadata, list)

\* json_get_string(entry, key) != NULL: the member exists and is a string
HasString(entry, key) == entry.object /\ key \in entry.strings

\* The interpreter's state while it runs: the tree, and the history of the
\* entries it processed and of the paths the glob walk handed to the callback.
Log(S, event) == [S EXCEPT !.log = Append(@, event)]

process_file_entry_GlobLike(S, base_dir, entry, parent_folder) ==
    LET path == entry.path
        full_source == path_join(base_dir, entry.source)
        folder_path == path_dirname(path)
        filename == path_basename(path)
        parent_path == S.T.folders[parent_folder].path
        full_folder_path ==
            IF folder_path = <<>> THEN parent_path
            ELSE IF parent_path = <<>> THEN folder_path
            ELSE path_join(parent_path, folder_path)
        e == vfs_ensure_folder(S.T, ROOT, full_folder_path)
        a == vfs_add_file(e.T, e.ret, filename, full_source)
    IN  IF ~HasString(entry, "path") \/ ~HasString(entry, "source")
        THEN [S |-> S, err |-> "CIRF_ERR_INVALID"]
        ELSE IF a.ret = NULL
        THEN [S |-> [S EXCEPT !.T = e.T], err |-> "CIRF_OK"]
        ELSE [S |-> [S EXCEPT !.T = [a.T EXCEPT !.files[a.ret].metadata =
                                        load_metadata(entry, @)]],
              err |-> "CIRF_OK"]

process_file_entry(S, base_dir, entry, parent_folder) ==
    LET path == entry.path
        full_source == path_join(base_dir, entry.source)
        folder_path == path_dirname(path)
        filename == path_basename(path)
        parent_path == S.T.folders[parent_folder].path
        full_folder_path ==
            IF folder_path = <<>> THEN parent_path
            ELSE IF parent_path = <<>> THEN folder_path
            ELSE path_join(parent_path, folder_path)
        e == vfs_ensure_folder(S.T, ROOT, full_folder_path)
        a == vfs_add_file(e.T, e.ret, filename, full_source)
        mime == IF HasString(entry, "mime") THEN entry.mime ELSE a.T.files[a.ret].mime
    IN  IF ~HasString(entry, "path") \/ ~HasString(entry, "source")
        THEN [S |-> S, err |-> "CIRF_ERR_INVALID"]
        ELSE IF e.ret = NULL
        THEN [S |-> [S EXCEPT !.T = e.T], err |-> "CIRF_ERR_NOMEM"]
        ELSE IF a.ret = NULL
        THEN [S |-> [S EXCEPT !.T = e.T], err |-> "CIRF_ERR_DUPLICATE"]
        ELSE [S |-> [S EXCEPT !.T = [a.T EXCEPT
                                        !.files[a.ret].mime = mime,
                                        !.files[a.ret].metadata =
                                            load_metadata(entry, @)]],
              err |-> "CIRF_OK"]

\* --------------------------------------------------------- glob matcher
RECURSIVE glob_pattern_match(_, _)
glob_pattern_match(pattern, string) ==
    IF pattern # <<>> /\ string # <<>>
    THEN IF Head(pattern) = "*"
         THEN LET p1 == Tail(pattern)
              IN  IF p1 # <<>> /\ Head(p1) = "*"
                  THEN \* ** matches anything including /
                       LET p2 == Tail(p1)
                           p3 == IF p2 # <<>> /\ Head(p2) = SLASH THEN Tail(p2) ELSE p2
                       IN  \E k \in 0..Len(string) :
                              glob_pattern_match(p3, SubSeq(string, k + 1, Len(string)))
                  ELSE \* * matches anything except /
                       LET stops == { k \in 0..Len(string) :
                                        k = Len(string) \/ string[k + 1] = SLASH }
                           n == CHOOSE k \in stops : \A j \in stops : k <= j
                       IN  \/ \E k \in 0..(n - 1) :
                                glob_pattern_match(p1, SubSeq(string, k + 1, Len(string)))
                           \/ glob_pattern_match(p1, SubSeq(string, n + 1, Len(string)))
         ELSE IF Head(pattern) = "?"
         THEN IF Head(string) = SLASH THEN FALSE
              ELSE glob_pattern_match(Tail(pattern), Tail(string))
         ELSE IF Head(pattern) # Head(string) THEN FALSE
         ELSE glob_pattern_match(Tail(pattern), Tail(string))
    ELSE \* skip trailing stars, then both must be at their end
         /\ string = <<>>
         /\ \A i \in 1..Len(pattern) : pattern[i] = "*"

\* path_join of glob.c (no "./" skipping)
glob_path_join(a, b) ==
    IF a = <<>> THEN b
    ELSE IF b = <<>> THEN a
    ELSE IF a[Len(a)] # SLASH THEN a \o <<SLASH>> \o b ELSE a \o b

\* --------------------------------------------------------------- the disk
\* The manifest is d/m.  Directory d holds the files c ("hi") and c.h
\* (empty) and the directory h, which holds the file c.
ConfigPath == <<"d", "/", "m">>
DIR_D == <<"d">>
DIR_DH == <<"d", "/", "h">>
NAME_C == <<"c">>
NAME_CH == <<"c", ".", "h">>
NAME_H == <<"h">>

is_directory(path) == path \in {DIR_D, DIR_DH}

DiskFiles == { DIR_D \o <<SLASH>> \o NAME_C, DIR_D \o <<SLASH>> \o NAME_CH,
               DIR_DH \o <<SLASH>> \o NAME_C }

DiskContent(path) ==
    IF path = DIR_D \o <<SLASH>> \o NAME_C THEN <<104, 105>>
    ELSE IF path = DIR_D \o <<SLASH>> \o NAME_CH THEN <<>>
    ELSE <<1>>

\* the orders in which readdir may return the entries of d
ReadDirOrders ==
    { <<NAME_C, NAME_CH, NAME_H>>, <<NAME_C, NAME_H, NAME_CH>>,
      <<NAME_CH, NAME_C, NAME_H>>, <<NAME_CH, NAME_H, NAME_C>>,
      <<NAME_H, NAME_C, NAME_CH>>, <<NAME_H, NAME_CH, NAME_C>> }

ReadDir(dir_path, order) == IF dir_path = DIR_D THEN order ELSE <<NAME_C>>

\* ------------------------------------------------------------ glob entries
Event(ev, entry, path, added, err) ==
    [ev |-> ev, entry |-> entry, path |-> path, added |-> added, err |-> err]

\* one call of the callback in the history: the matched path, the target
\* of the glob entry, and the tree before and after the call
Match(S, T, ctx, path, added, err) ==
    Log([S EXCEPT !.T = T],
        [ev |-> "match", entry |-> ctx.glob_meta, path |-> path, added |-> added,
         err |-> err, target |-> ctx.target, before |-> S.T, after |-> T])

glob_callback_FailOnDuplicate(S, ctx, path) ==
    LET target_path == path_join(ctx.target, path_basename(path))
        e == vfs_ensure_folder(S.T, ROOT, path_dirname(target_path))
        a == vfs_add_file(e.T, e.ret, path_basename(target_path), path)
    IN  IF a.ret = NULL
        THEN [S |-> Match(S, e.T, ctx, path, FALSE, "-1"), ret |-> 0 - 1]
        ELSE [S |-> Match(S, [a.T EXCEPT !.files[a.ret].metadata =
                                    load_metadata(ctx.glob_meta, @)],
                          ctx, path, TRUE, "0"),
              ret |-> 0]

glob_callback_MirrorTree(S, ctx, path) ==
    LET target_path == path_join(ctx.target, path)
        e == vfs_ensure_folder(S.T, ROOT, path_dirname(target_path))
        a == vfs_add_file(e.T, e.ret, path_basename(target_path), path)
    IN  IF a.ret = NULL
        THEN [S |-> Match(S, e.T, ctx, path, FALSE, "0"), ret |-> 0]
        ELSE [S |-> Match(S, [a.T EXCEPT !.files[a.ret].metadata =
                                    load_metadata(ctx.glob_meta, @)],
                          ctx, path, TRUE, "0"),
              ret |-> 0]

glob_callback(S, ctx, path) ==
    LET basename == path_basename(path)
        target_path == path_join(ctx.target, basename)
        folder_path == path_dirname(target_path)
        e == vfs_ensure_folder(S.T, ROOT, folder_path)
        filename == path_basename(target_path)
        a == vfs_add_file(e.T, e.ret, filename, path)
    IN  IF e.ret = NULL
        THEN [S |-> Match(S, S.T, ctx, path, FALSE, "-1"), ret |-> 0 - 1]
        ELSE IF a.ret = NULL
        THEN \* may be duplicate, continue
             [S |-> Match(S, e.T, ctx, path, FALSE, "0"), ret |-> 0]
        ELSE [S |-> Match(S, [a.T EXCEPT !.files[a.ret].metadata =
                                    load_metadata(ctx.glob_meta, @)],
                          ctx, path, TRUE, "0"),
              ret |-> 0]

RECURSIVE glob_recurse(_, _, _, _, _, _)
RECURSIVE glob_readdir_loop(_, _, _, _, _, _, _)
glob_readdir_loop(S, ctx, dir_path, pattern, prefix, order, names) ==
    IF names = <<>> THEN [S |-> S, err |-> "CIRF_OK"]
    ELSE LET full_path == glob_path_join(dir_path, Head(names))
             rel_path == glob_path_join(prefix, Head(names))
             sub == glob_recurse(S, ctx, full_path, pattern, rel_path, order)
             cb == glob_callback(S, ctx, full_path)
         IN  IF is_directory(full_path)
             THEN IF sub.err # "CIRF_OK" THEN sub
                  ELSE glob_readdir_loop(sub.S, ctx, dir_path, pattern, prefix,
                                         order, Tail(names))
             ELSE IF glob_pattern_match(pattern, rel_path)
             THEN IF cb.ret # 0 THEN [S |-> cb.S, err |-> "CIRF_OK"]
                  ELSE glob_readdir_loop(cb.S, ctx, dir_path, pattern, prefix,
                                         order, Tail(names))
             ELSE glob_readdir_loop(S, ctx, dir_path, pattern, prefix,
                                    order, Tail(names))

glob_recurse(S, ctx, dir_path, pattern, prefix, order) ==
    IF ~is_directory(dir_path) THEN [S |-> S, err |-> "CIRF_ERR_IO"]
    ELSE glob_readdir_loop(S, ctx, dir_path, pattern, prefix, order,
                           ReadDir(dir_path, order))

glob_match(S, ctx, pattern, base_dir, order) ==
    LET pat == IF Len(pattern) >= 2 /\ pattern[1] = "." /\ pattern[2] = SLASH
               THEN SubSeq(pattern, 3, Len(pattern)) ELSE pattern
    IN  glob_recurse(S, ctx, base_dir, pat, <<>>, order)

process_glob_entry(S, base_dir, entry, parent_folder, order) ==
    LET parent_path == S.T.folders[parent_folder].path
        full_target == IF parent_path = <<>> THEN entry.target
                       ELSE path_join(parent_path, entry.target)
        ctx == [target |-> full_target, glob_meta |-> entry]
    IN  IF ~HasString(entry, "pattern") \/ ~HasString(entry, "target")
        THEN [S |-> S, err |-> "CIRF_ERR_INVALID"]
        ELSE glob_match(S, ctx, entry.pattern, base_dir, order)

\* ------------------------------------------------- folder entries, dispatch
RECURSIVE process_entry(_, _, _, _, _)
RECURSIVE process_entries(_, _, _, _, _)

process_folder_entry(S, base_dir, entry, parent_folder, order) ==
    LET parent_path == S.T.folders[parent_folder].path
        full_path == IF parent_path = <<>> THEN entry.path
                     ELSE path_join(parent_path, entry.path)
        e == vfs_ensure_folder(S.T, ROOT, full_path)
        withMeta == [S EXCEPT !.T = [e.T EXCEPT !.folders[e.ret].metadata =
                                        load_metadata(entry, @)]]
    IN  IF ~HasString(entry, "path")
        THEN [S |-> S, err |-> "CIRF_ERR_INVALID"]
        ELSE IF e.ret = NULL
        THEN [S |-> S, err |-> "CIRF_ERR_NOMEM"]
        ELSE process_entries(withMeta, base_dir, entry.entries, e.ret, order)

\* for(i = 0; i < count; i++) { err = process_entry(...); if(err) return err; }
process_entries(S, base_dir, items, parent_folder, order) ==
    IF items = <<>> THEN [S |-> S, err |-> "CIRF_OK"]
    ELSE LET rest(r) ==
                 IF r.err # "CIRF_OK" THEN r
                 ELSE process_entries(r.S, base_dir, Tail(items), parent_folder, order)
         IN  rest(process_entry(S, base_dir, Head(items), parent_folder, order))

process_entry_SkipUnknown(S, base_dir, entry, parent_folder, order) ==
    LET parent_path == S.T.folders[parent_folder].path
        S0 == Log(S, Event("entry", entry, parent_path, FALSE, ""))
        done(r) == [S |-> Log(r.S, Event("done", entry, parent_path, FALSE, r.err)),
                    err |-> r.err]
    IN  done(IF ~entry.object THEN [S |-> S0, err |-> "CIRF_ERR_INVALID"]
             ELSE IF ~HasString(entry, "type")
             THEN [S |-> S0, err |-> "CIRF_ERR_INVALID"]
             ELSE IF entry.type = "file"
             THEN process_file_entry(S0, base_dir, entry, parent_folder)
             ELSE IF entry.type = "folder"
             THEN process_folder_entry(S0, base_dir, entry, parent_folder, order)
             ELSE IF entry.type = "glob"
             THEN process_glob_entry(S0, base_dir, entry, parent_folder, order)
             ELSE [S |-> S0, err |-> "CIRF_OK"])

process_entry(S, base_dir, entry, parent_folder, order) ==
    LET parent_path == S.T.folders[parent_folder].path
        S0 == Log(S, Event("entry", entry, parent_path, FALSE, ""))
        done(r) == [S |-> Log(r.S, Event("done", entry, parent_path, FALSE, r.err)),
                    err |-> r.err]
    IN  done(IF ~entry.object THEN [S |-> S0, err |-> "CIRF_ERR_INVALID"]
             ELSE IF ~HasString(entry, "type")
             THEN [S |-> S0, err |-> "CIRF_ERR_INVALID"]
             ELSE IF entry.type = "file"
             THEN process_file_entry(S0, base_dir, entry, parent_folder)
             ELSE IF entry.type = "folder"
             THEN process_folder_entry(S0, base_dir, entry, parent_folder, order)
             ELSE IF entry.type = "glob"
             THEN process_glob_entry(S0, base_dir, entry, parent_folder, order)
             ELSE [S |-> S0, err |-> "CIRF_ERR_INVALID"])

\* ------------------------------------------------------------ data loading
\* malloc0_null: whether malloc(0) returns NULL on this platform
vfs_load_file_data(T, file, malloc0_null) ==
    LET f == T.files[file]
        data == DiskContent(f.source_path)
    IN  IF f.loaded THEN [T |-> T, err |-> "CIRF_OK"]
        ELSE IF f.source_path \notin DiskFiles THEN [T |-> T, err |-> "CIRF_ERR_IO"]
        ELSE IF Len(data) = 0 /\ malloc0_null THEN [T |-> T, err |-> "CIRF_ERR_NOMEM"]
        ELSE [T |-> [T EXCEPT !.files[file].loaded = TRUE,
                              !.files[file].data = data,
                              !.files[file].size = Len(data)],
              err |-> "CIRF_OK"]

RECURSIVE load_files_loop(_, _, _)
load_files_loop(T, ids, malloc0_null) ==
    IF ids = <<>> THEN [T |-> T, err |-> "CIRF_OK"]
    ELSE LET r == vfs_load_file_data(T, Head(ids), malloc0_null)
         IN  IF r.err # "CIRF_OK" THEN r
             ELSE load_files_loop(r.T, Tail(ids), malloc0_null)

RECURSIVE load_folder_data(_, _, _)
RECURSIVE load_children_loop(_, _, _)
load_children_loop(T, ids, malloc0_null) ==
    IF ids = <<>> THEN [T |-> T, err |-> "CIRF_OK"]
    ELSE LET r == load_folder_data(T, Head(ids), malloc0_null)
         IN  IF r.err # "CIRF_OK" THEN r
             ELSE load_children_loop(r.T, Tail(ids), malloc0_null)

load_folder_data_ChildrenFirst(T, folder, malloc0_null) ==
    LET r == load_children_loop(T, T.folders[folder].children, malloc0_null)
    IN  IF r.err # "CIRF_OK" THEN r
        ELSE load_files_loop(r.T, T.folders[folder].files, malloc0_null)

load_folder_data(T, folder, malloc0_null) ==
    LET r == load_files_loop(T, T.folders[folder].files, malloc0_null)
    IN  IF r.err # "CIRF_OK" THEN r
        ELSE load_children_loop(r.T, T.folders[folder].children, malloc0_null)

vfs_load_all_data(T, root, malloc0_null) ==
    IF root = NULL THEN [T |-> T, err |-> "CIRF_ERR_INVALID"]
    ELSE load_folder_data(T, root, malloc0_null)

\* -------------------------------------------------------------- config_load
\* out = TRUE: *out was set, the caller holds the configuration with tree T
config_load(json, path, order, malloc0_null) ==
    LET base_dir == path_dirname(path)
        root == vfs_create_root
        S0 == [T |-> [root EXCEPT !.folders[ROOT].metadata = load_metadata(json, @)],
               log |-> <<>>]
        \* r: the entries were processed; l: the file contents were loaded
        \* built: the tree handed to the load pass; pass: what the pass returned
        loaded(r, l) ==
            IF l.err # "CIRF_OK"
            THEN [err |-> l.err, out |-> FALSE, T |-> root, log |-> r.S.log,
                  built |-> r.S.T, pass |-> l.err]
            ELSE [err |-> "CIRF_OK", out |-> TRUE, T |-> l.T, log |-> r.S.log,
                  built |-> r.S.T, pass |-> l.err]
        processed(r) ==
            IF r.err # "CIRF_OK"
            THEN [err |-> r.err, out |-> FALSE, T |-> root, log |-> r.S.log,
                  built |-> root, pass |-> ""]
            ELSE loaded(r, vfs_load_all_data(r.S.T, ROOT, malloc0_null))
    IN  IF ~json.object
        THEN [err |-> "CIRF_ERR_PARSE", out |-> FALSE, T |-> root, log |-> <<>>,
              built |-> root, pass |-> ""]
        ELSE processed(process_entries(S0, base_dir, json.entries, ROOT, order))

\* config_load_deps: the same interpretation, without the load pass
config_load_deps_NoRootMetadata(json, path, order) ==
    LET processed(r) ==
            IF r.err # "CIRF_OK"
            THEN [err |-> r.err, out |-> FALSE, T |-> vfs_create_root, log |-> r.S.log]
            ELSE [err |-> "CIRF_OK", out |-> TRUE, T |-> r.S.T, log |-> r.S.log]
    IN  IF ~json.object
        THEN [err |-> "CIRF_ERR_PARSE", out |-> FALSE, T |-> vfs_create_root,
              log |-> <<>>]
        ELSE processed(process_entries([T |-> vfs_create_root, log |-> <<>>],
                                       path_dirname(path), json.entries, ROOT, order))

config_load_deps(json, path, order) ==
    LET base_dir == path_dirname(path)
        root == vfs_create_root
        S0 == [T |-> [root EXCEPT !.folders[ROOT].metadata = load_metadata(json, @)],
               log |-> <<>>]
        processed(r) ==
            IF r.err # "CIRF_OK"
            THEN [err |-> r.err, out |-> FALSE, T |-> root, log |-> r.S.log]
            ELSE [err |-> "CIRF_OK", out |-> TRUE, T |-> r.S.T, log |-> r.S.log]
    IN  IF ~json.object
        THEN [err |-> "CIRF_ERR_PARSE", out |-> FALSE, T |-> root, log |-> <<>>]
        ELSE processed(process_entries(S0, base_dir, json.entries, ROOT, order))

\* collect_source_paths_folder: every source path followed by a newline
RECURSIVE collect_source_paths_folder(_, _, _)
RECURSIVE collect_source_paths_children(_, _, _)
RECURSIVE collect_source_paths_files(_, _, _)
collect_source_paths_files(T, ids, buf) ==
    IF ids = <<>> THEN buf
    ELSE collect_source_paths_files(T, Tail(ids),
            buf \o T.files[Head(ids)].source_path \o << "^J" >>)

collect_source_paths_children(T, ids, buf) ==
    IF ids = <<>> THEN buf
    ELSE collect_source_paths_children(T, Tail(ids),
            collect_source_paths_folder(T, Head(ids), buf))

collect_source_paths_folder(T, folder, buf) ==
    collect_source_paths_children(T, T.folders[folder].children,
        collect_source_paths_files(T, T.folders[folder].files, buf))

\* the trailing newline becomes the terminating null
config_get_source_paths(T) ==
    LET buf == collect_source_paths_folder(T, ROOT, <<>>)
    IN  IF Len(buf) > 0 /\ buf[Len(buf)] = "^J" THEN SubSeq(buf, 1, Len(buf) - 1)
        ELSE buf

\* ------------------------------------------------------ manifests (inputs)
Member(key, value, string) == [key |-> key, value |-> value, string |-> string]

JsonEntry(type, path, source, pattern, target, strings) ==
    [object |-> TRUE, strings |-> strings, type |-> type, path |-> path,
     source |-> source, mime |-> <<>>, pattern |-> pattern, target |-> target,
     metadata |-> <<>>, entries |-> <<>>]

FileEntry(path, source) ==
    JsonEntry("file", path, source, <<>>, <<>>, {"type", "path", "source"})
FolderEntry(path, entries) ==
    [JsonEntry("folder", path, <<>>, <<>>, <<>>, {"type", "path"})
        EXCEPT !.entries = entries]
GlobEntry(pattern, target) ==
    JsonEntry("glob", <<>>, <<>>, pattern, target, {"type", "pattern", "target"})

META_KV == << Member(<<"k">>, <<"v">>, TRUE), Member(<<"n">>, <<>>, FALSE),
              Member(<<"k">>, <<"w">>, TRUE) >>

E_c == FileEntry(<<"c">>, <<"c">>)
E_hc == FileEntry(<<"h", "/", "c">>, <<"c", ".", "h">>)
E_h_c == FileEntry(<<"h", "/", "/", "c">>, <<"c">>)
\* the JSON strings "\bc" (a backspace, then c) and "\"\\\n"
META_BS == << Member(<<"b">>, <<"^H", "c">>, TRUE) >>
META_QUOTED == << Member(<<"q">>, <<"\"", "\\", "^J">>, TRUE) >>
E_hcc == [FileEntry(<<"h", "/", "c", "/", "c">>, <<"h", "/", "c">>)
            EXCEPT !.metadata = META_BS]
E_ch == [FileEntry(<<"c", ".", "h">>, <<"c">>)
            EXCEPT !.mime = <<"x">>, !.strings = @ \cup {"mime"},
                   !.metadata = META_KV \o META_QUOTED]
D_c == FolderEntry(<<"c">>, <<>>)
D_h == [FolderEntry(<<"h">>, <<E_c>>) EXCEPT !.metadata = META_KV]
D_hc == FolderEntry(<<"h", "/", "c">>, <<>>)
G_star == GlobEntry(<<"*">>, <<>>)
G_all == [GlobEntry(<<"*", "*">>, <<"h">>) EXCEPT !.metadata = META_KV]
X_link == JsonEntry("link", <<"c">>, <<"c">>, <<>>, <<>>, {"type", "path", "source"})

EntryPool == { E_c, E_hc, E_h_c, E_hcc, E_ch, D_c, D_h, D_hc, G_star, G_all, X_link }

\* entries that are not an object, have no string "type", or lack a field
X_scalar == [X_link EXCEPT !.object = FALSE]
X_untyped == [E_c EXCEPT !.strings = {"path", "source"}]
E_nopath == [E_c EXCEPT !.strings = {"type", "source"}]
E_nosource == [E_c EXCEPT !.strings = {"type", "path"}]
D_nopath == [D_h EXCEPT !.strings = {"type"}]
G_nopattern == [G_star EXCEPT !.strings = {"type", "target"}]
G_notarget == [G_star EXCEPT !.strings = {"type", "pattern"}]

InvalidPool ==
    { X_link, X_scalar, X_untyped, E_nopath, E_nosource, D_nopath,
      G_nopattern, G_notarget }

\* an invalid entry first, last, and inside a folder entry that has more
\* entries after it and is itself followed by an entry
InvalidEntryLists ==
    UNION { { <<x, E_c>>, <<E_c, x>>,
              <<FolderEntry(<<"h">>, <<E_c, x, E_hc>>), E_ch>> } : x \in InvalidPool }

\* entries whose path or target starts with "./"
D_dot_c == FolderEntry(<<".", "/", "c">>, <<E_c>>)
G_dot_c == GlobEntry(<<"*">>, <<".", "/", "c">>)
E_dot_hc == FileEntry(<<".", "/", "h", "/", "c">>, <<"c">>)

\* entries two folder entries deep, a second top-level folder that holds a
\* file and a folder, and the "./" entries at the top and inside a folder entry
NestedEntryLists ==
    { << FolderEntry(<<"h">>, << FolderEntry(<<"c">>, <<E_hc, G_star>>) >>) >>,
      << D_c, E_hcc, E_hc >>,
      << D_dot_c >>, << G_dot_c >>, << E_dot_hc >>,
      << FolderEntry(<<"h">>, << D_dot_c >>) >>,
      << FolderEntry(<<"h">>, << G_dot_c >>) >>,
      << FolderEntry(<<"h">>, << E_dot_hc >>) >> }

\* paths that differ in a character that is not alphanumeric, and a folder
\* named "files" next to the files of its parent
E_c_h == FileEntry(<<"c", "/", "h">>, <<"c">>)
D_c_files == FolderEntry(<<"c", "/", "f", "i", "l", "e", "s">>, <<>>)

SymbolEntryLists ==
    { << E_ch, E_c_h >>, << FolderEntry(<<"c">>, <<E_c>>), D_c_files >> }

\* file paths that end in '/' and that start with '/'
E_h_slash == FileEntry(<<"h", "/">>, <<"c">>)
E_slash_c == FileEntry(<<"/", "c">>, <<"c">>)

SlashEntryLists == { << E_h_slash >>, << E_slash_c, D_hc >> }

Manifests ==
    { [object |-> TRUE, metadata |-> << Member(<<"k">>, <<"v">>, TRUE) >>,
       entries |-> es] :
        es \in UNION { [1..n -> EntryPool] : n \in 0..MaxEntries }
                \cup InvalidEntryLists \cup NestedEntryLists
                \cup SymbolEntryLists \cup SlashEntryLists }

\* ------------------------------------------------------------- characters
\* One character is one string.  The control characters 1..31 are written
\* in caret notation ("^H" is backspace, "^J" is newline); a byte above 126
\* is written as its hex escape, and the grave accent by its name.
Control == << "^A", "^B", "^C", "^D", "^E", "^F", "^G", "^H", "^I", "^J",
              "^K", "^L", "^M", "^N", "^O", "^P", "^Q", "^R", "^S", "^T",
              "^U", "^V", "^W", "^X", "^Y", "^Z", "^[", "^\\", "^]", "^^", "^_" >>

Printable == << " ", "!", "\"", "#", "$", "%", "&", "'", "(", ")", "*", "+",
                ",", "-", ".", "/", "0", "1", "2", "3", "4", "5", "6", "7",
                "8", "9", ":", ";", "<", "=", ">", "?", "@", "A", "B", "C",
                "D", "E", "F", "G", "H", "I", "J", "K", "L", "M", "N", "O",
                "P", "Q", "R", "S", "T", "U", "V", "W", "X", "Y", "Z", "[",
                "\\", "]", "^", "_", "grave", "a", "b", "c", "d", "e", "f", "g",
                "h", "i", "j", "k", "l", "m", "n", "o", "p", "q", "r", "s",
                "t", "u", "v", "w", "x", "y", "z", "{", "|", "}", "~" >>

HexDigits == << "0", "1", "2", "3", "4", "5", "6", "7", "8", "9",
                "a", "b", "c", "d", "e", "f" >>

ControlChars == { Control[i] : i \in 1..Len(Control) }
ControlCode(c) == CHOOSE i \in 1..Len(Control) : Control[i] = c

\* the character with code n, 1 <= n <= 255
Chr(n) ==
    IF n <= 31 THEN Control[n]
    ELSE IF n <= 126 THEN Printable[n - 31]
    ELSE "\\x" \o HexDigits[(n \div 16) + 1] \o HexDigits[(n % 16) + 1]

\* isalnum in the C locale
isalnum(c) ==
    \E i \in 1..Len(Printable) :
        /\ Printable[i] = c
        /\ \/ i + 31 \in 48..57
           \/ i + 31 \in 65..90
           \/ i + 31 \in 97..122

\* isxdigit, and the value of a hexadecimal digit
isxdigit(c) == \E i \in 1..16 : HexDigits[i] = c \/ (i > 10 /\ Printable[i + 23] = c)
HexValue(c) == (CHOOSE i \in 1..16 : HexDigits[i] = c \/ (i > 10 /\ Printable[i + 23] = c)) - 1

\* ----------------------------------------------------------------- writer
\* printf("%02x", b) for a byte b
Hex02(b) == << HexDigits[(b \div 16) + 1], HexDigits[(b % 16) + 1] >>

\* writer_write_bytes_hex: one "0x%02x" token per byte (the separators
\* between the tokens are white space and commas)
writer_write_bytes_hex(data, len) ==
    [i \in 1..len |-> <<"0", "x">> \o Hex02(data[i])]

writer_escape_char(c) ==
    IF c = "^J" THEN <<"\\", "n">>
    ELSE IF c = "^M" THEN <<"\\", "r">>
    ELSE IF c = "^I" THEN <<"\\", "t">>
    ELSE IF c = "\\" THEN <<"\\", "\\">>
    ELSE IF c = "\"" THEN <<"\\", "\"">>
    ELSE IF c \in ControlChars THEN <<"\\", "x">> \o Hex02(ControlCode(c))
    ELSE <<c>>

RECURSIVE writer_escape_loop(_)
writer_escape_loop(s) ==
    IF s = <<>> THEN <<>>
    ELSE writer_escape_char(Head(s)) \o writer_escape_loop(Tail(s))

\* the string literal written for s, with its quotes
writer_write_string_escaped(s) == <<"\"">> \o writer_escape_loop(s) \o <<"\"">>

\* -------------------------------------------- the C compiler on the output
\* value of the integer constant 0xHH
c_hex_constant(tok) == HexValue(tok[3]) * 16 + HexValue(tok[4])

c_byte_array(tokens) == [i \in 1..Len(tokens) |-> c_hex_constant(tokens[i])]

\* a \x escape takes every hexadecimal digit that follows it
RECURSIVE HexRun(_, _)
HexRun(s, i) ==
    IF i <= Len(s) /\ isxdigit(s[i]) THEN 1 + HexRun(s, i + 1) ELSE 0

RECURSIVE HexNumber(_, _)
HexNumber(s, acc) ==
    IF s = <<>> THEN acc ELSE HexNumber(Tail(s), acc * 16 + HexValue(Head(s)))

RECURSIVE c_unescape(_)
c_unescape(s) ==
    IF s = <<>> THEN <<>>
    ELSE IF Head(s) # "\\" THEN <<Head(s)>> \o c_unescape(Tail(s))
    ELSE IF s[2] = "n" THEN <<"^J">> \o c_unescape(SubSeq(s, 3, Len(s)))
    ELSE IF s[2] = "r" THEN <<"^M">> \o c_unescape(SubSeq(s, 3, Len(s)))
    ELSE IF s[2] = "t" THEN <<"^I">> \o c_unescape(SubSeq(s, 3, Len(s)))
    ELSE IF s[2] = "x"
    THEN LET n == HexRun(s, 3)
             v == HexNumber(SubSeq(s, 3, 2 + n), 0)
         IN  <<Chr(v % 256)>> \o c_unescape(SubSeq(s, 3 + n, Len(s)))
    ELSE <<s[2]>> \o c_unescape(SubSeq(s, 3, Len(s)))

\* the string a string literal denotes
c_string_literal(lit) == c_unescape(SubSeq(lit, 2, Len(lit) - 1))

\* ---------------------------------------------------------------- symbols
\* the -n option: the base name of the generated symbols
Name == <<"r">>

make_identifier(path) ==
    IF path = <<>> THEN <<"r", "o", "o", "t">>
    ELSE [i \in 1..Len(path) |-> IF isalnum(path[i]) THEN path[i] ELSE "_"]

make_file_symbol(prefix, path) ==
    prefix \o <<"_", "f", "i", "l", "e", "_">> \o make_identifier(path)

make_dir_symbol(prefix, path) ==
    IF path = <<>> THEN prefix \o <<"_", "r", "o", "o", "t">>
    ELSE prefix \o <<"_", "d", "i", "r", "_">> \o make_identifier(path)

\* --------------------------------------------------------- code generator
\* The generator's context: the counters of codegen_ctx_t and of
\* generate_source, and everything written so far, in the order written.
NULL_LIT == <<"N", "U", "L", "L">>
FILES_SUFFIX == <<"_", "f", "i", "l", "e", "s">>

codegen_ctx ==
    [file_index |-> 0, metadata_index |-> 0, file_idx |-> 0,
     data |-> <<>>, decls |-> <<>>, meta |-> <<>>, file_meta_list |-> <<>>,
     arrays |-> <<>>, aliases |-> <<>>, folders |-> <<>>, w |-> <<>>]

\* %d of a count or an index
RECURSIVE printf_d(_)
printf_d(n) ==
    IF n < 10 THEN << Chr(48 + n) >>
    ELSE printf_d(n \div 10) \o << Chr(48 + (n % 10)) >>

\* "%s_data_%d" and "%s_meta_%d"
data_symbol(prefix, index) ==
    prefix \o <<"_", "d", "a", "t", "a", "_">> \o printf_d(index)

meta_symbol(prefix, index) ==
    prefix \o <<"_", "m", "e", "t", "a", "_">> \o printf_d(index)

\* One top-level declaration or definition as the writer receives it: the
\* identifier it introduces and the identifiers its text mentions.
Written(sym, refs) == [sym |-> sym, refs |-> refs]

vfs_metadata_count(list) == Len(list)
vfs_folder_count(T, folder) == Len(T.folders[folder].children)
vfs_file_count(T, folder) == Len(T.folders[folder].files)

\* static const unsigned char <name>_data_<index>[] = { ... };
generate_file_data(ctx, T, file, index) ==
    [ctx EXCEPT !.data = Append(@,
        [index |-> index, file |-> file,
         bytes |-> IF T.files[file].size > 0
                   THEN writer_write_bytes_hex(T.files[file].data, T.files[file].size)
                   ELSE <<>>]),
                !.w = Append(@, Written(data_symbol(Name, index), {}))]

\* static const cirf_metadata_t <name>_meta_<index>[] = { ... };
generate_metadata(ctx, meta) ==
    IF meta = <<>> THEN [ctx |-> ctx, index |-> 0 - 1]
    ELSE [ctx |-> [ctx EXCEPT
                     !.metadata_index = @ + 1,
                     !.meta = Append(@,
                        [index |-> ctx.metadata_index,
                         items |-> [i \in 1..Len(meta) |->
                                      << writer_write_string_escaped(meta[i][1]),
                                         writer_write_string_escaped(meta[i][2]) >>]]),
                     !.w = Append(@, Written(meta_symbol(Name, ctx.metadata_index), {}))],
          index |-> ctx.metadata_index]

RECURSIVE generate_all_data(_, _, _)
RECURSIVE generate_all_data_files(_, _, _)
RECURSIVE generate_all_data_children(_, _, _)
generate_all_data_files(ctx, T, ids) ==
    IF ids = <<>> THEN ctx
    ELSE generate_all_data_files(
            [generate_file_data(ctx, T, Head(ids), ctx.file_index)
                EXCEPT !.file_index = @ + 1],
            T, Tail(ids))

generate_all_data_children(ctx, T, ids) ==
    IF ids = <<>> THEN ctx
    ELSE generate_all_data_children(generate_all_data(ctx, T, Head(ids)), T, Tail(ids))

generate_all_data_ChildrenFirst(ctx, T, folder) ==
    generate_all_data_files(
        generate_all_data_children(ctx, T, T.folders[folder].children),
        T, T.folders[folder].files)

generate_all_data(ctx, T, folder) ==
    generate_all_data_children(
        generate_all_data_files(ctx, T, T.folders[folder].files),
        T, T.folders[folder].children)

\* collect_folder_info; st holds *list, *file_idx and *folder_idx
RECURSIVE collect_folder_info(_, _, _)
RECURSIVE collect_folder_info_children(_, _, _)
collect_folder_info_children(T, ids, st) ==
    IF ids = <<>> THEN st
    ELSE collect_folder_info_children(T, Tail(ids),
                                      collect_folder_info(T, Head(ids), st))

collect_folder_info(T, folder, st) ==
    LET info == [folder |-> folder,
                 self_index |-> st.folder_idx,
                 files_start |-> st.file_idx,
                 files_count |-> vfs_file_count(T, folder),
                 children_start |-> st.folder_idx + 1,
                 children_count |-> vfs_folder_count(T, folder),
                 metadata_index |-> 0 - 1]
    IN  collect_folder_info_children(T, T.folders[folder].children,
            [list |-> Append(st.list, info),
             file_idx |-> st.file_idx + info.files_count,
             folder_idx |-> st.folder_idx + 1])

find_folder_info(list, folder) ==
    CHOOSE info \in { list[i] : i \in 1..Len(list) } : info.folder = folder

\* const cirf_folder_t <sym>; for every collected folder but the root
generate_folder_forward_decls(ctx, T, list) ==
    LET kept == SelectSeq(list, LAMBDA info : info.self_index > 0)
        syms == [i \in 1..Len(kept) |->
                    make_dir_symbol(Name, T.folders[kept[i].folder].path)]
    IN  [ctx EXCEPT !.decls = syms,
                    !.w = @ \o [i \in 1..Len(syms) |-> Written(syms[i], {})]]

RECURSIVE find_file_meta_index(_, _)
find_file_meta_index(list, file) ==
    IF list = <<>> THEN 0 - 1
    ELSE IF Head(list).file = file THEN Head(list).metadata_index
    ELSE find_file_meta_index(Tail(list), file)

RECURSIVE generate_all_file_metadata(_, _, _)
RECURSIVE generate_all_file_metadata_files(_, _, _)
RECURSIVE generate_all_file_metadata_children(_, _, _)
generate_all_file_metadata_files(ctx, T, ids) ==
    IF ids = <<>> THEN ctx
    ELSE LET g == generate_metadata(ctx, T.files[Head(ids)].metadata)
         IN  generate_all_file_metadata_files(
                IF T.files[Head(ids)].metadata # <<>>
                THEN [g.ctx EXCEPT !.file_meta_list =
                        << [file |-> Head(ids), metadata_index |-> g.index] >> \o @]
                ELSE ctx,
                T, Tail(ids))

generate_all_file_metadata_children(ctx, T, ids) ==
    IF ids = <<>> THEN ctx
    ELSE generate_all_file_metadata_children(
            generate_all_file_metadata(ctx, T, Head(ids)), T, Tail(ids))

generate_all_file_metadata(ctx, T, folder) ==
    generate_all_file_metadata_children(
        generate_all_file_metadata_files(ctx, T, T.folders[folder].files),
        T, T.folders[folder].children)

\* static const cirf_file_t <dir>_files[] = { ... }; and the aliases
RECURSIVE generate_files_array_items(_, _, _, _, _)
generate_files_array_items(T, folder, ids, file_meta_list, file_idx) ==
    IF ids = <<>> THEN <<>>
    ELSE LET f == T.files[Head(ids)]
             meta_idx == find_file_meta_index(file_meta_list, Head(ids))
         IN  << [file |-> Head(ids),
                 name |-> writer_write_string_escaped(f.name),
                 path |-> writer_write_string_escaped(f.path),
                 mime |-> writer_write_string_escaped(f.mime),
                 data |-> file_idx,
                 size |-> f.size,
                 parent |-> make_dir_symbol(Name, T.folders[folder].path),
                 metadata |-> meta_idx,
                 metadata_count |-> IF meta_idx >= 0
                                    THEN vfs_metadata_count(f.metadata) ELSE 0] >>
             \o generate_files_array_items(T, folder, Tail(ids), file_meta_list,
                                           file_idx + 1)

file_record_refs(item) ==
    { data_symbol(Name, item.data), item.parent }
        \cup (IF item.metadata >= 0 THEN { meta_symbol(Name, item.metadata) } ELSE {})

generate_files_array(ctx, T, folder, info_list) ==
    LET ids == T.folders[folder].files
        dir_sym == make_dir_symbol(Name, T.folders[folder].path)
        written(items, aliases) ==
            [ctx EXCEPT
                !.arrays = Append(@, [sym |-> dir_sym \o FILES_SUFFIX, items |-> items]),
                !.aliases = @ \o aliases,
                !.file_idx = @ + Len(ids),
                !.w = Append(@, Written(dir_sym \o FILES_SUFFIX,
                                        UNION { file_record_refs(items[i]) :
                                                    i \in 1..Len(items) }))
                        \o [i \in 1..Len(aliases) |->
                                Written(aliases[i].sym, { aliases[i].array })]]
    IN  IF ids = <<>> THEN ctx
        ELSE written(generate_files_array_items(T, folder, ids,
                                                ctx.file_meta_list, ctx.file_idx),
                     [i \in 1..Len(ids) |->
                        [sym |-> make_file_symbol(Name, T.files[ids[i]].path),
                         array |-> dir_sym \o FILES_SUFFIX,
                         index |-> i - 1]])

RECURSIVE generate_all_files_arrays(_, _, _, _)
RECURSIVE generate_all_files_arrays_children(_, _, _, _)
generate_all_files_arrays_children(ctx, T, ids, info_list) ==
    IF ids = <<>> THEN ctx
    ELSE generate_all_files_arrays_children(
            generate_all_files_arrays(ctx, T, Head(ids), info_list),
            T, Tail(ids), info_list)

generate_all_files_arrays(ctx, T, folder, info_list) ==
    generate_all_files_arrays_children(
        generate_files_array(ctx, T, folder, info_list),
        T, T.folders[folder].children, info_list)

\* const cirf_folder_t <sym> = { ... };
generate_folder_struct(ctx, T, folder, info_list) ==
    LET info == find_folder_info(info_list, folder)
        f == T.folders[folder]
        g == generate_metadata(ctx, f.metadata)
        struct ==
            [sym |-> make_dir_symbol(Name, f.path),
             folder |-> folder,
             name |-> writer_write_string_escaped(f.name),
             path |-> writer_write_string_escaped(f.path),
             parent |-> IF f.parent # NULL
                        THEN make_dir_symbol(Name, T.folders[f.parent].path)
                        ELSE NULL_LIT,
             children |-> IF f.children # <<>>
                          THEN make_dir_symbol(Name, T.folders[f.children[1]].path)
                          ELSE NULL_LIT,
             child_count |-> IF f.children # <<>> THEN info.children_count ELSE 0,
             files |-> IF info.files_count > 0
                       THEN make_dir_symbol(Name, f.path) \o FILES_SUFFIX
                       ELSE NULL_LIT,
             file_count |-> IF info.files_count > 0 THEN info.files_count ELSE 0,
             metadata |-> g.index,
             metadata_count |-> IF g.index >= 0 THEN vfs_metadata_count(f.metadata)
                                ELSE 0]
    IN  [g.ctx EXCEPT
            !.folders = Append(@, struct),
            !.w = Append(@, Written(struct.sym,
                    ({ struct.parent, struct.children, struct.files } \ { NULL_LIT })
                    \cup (IF g.index >= 0 THEN { meta_symbol(Name, g.index) } ELSE {})))]

\* children first, then the folder itself
RECURSIVE generate_all_folders(_, _, _, _)
RECURSIVE generate_all_folders_children(_, _, _, _)
generate_all_folders_children(ctx, T, ids, info_list) ==
    IF ids = <<>> THEN ctx
    ELSE generate_all_folders_children(
            generate_all_folders(ctx, T, Head(ids), info_list),
            T, Tail(ids), info_list)

generate_all_folders_ParentFirst(ctx, T, folder, info_list) ==
    generate_all_folders_children(
        generate_folder_struct(ctx, T, folder, info_list),
        T, T.folders[folder].children, info_list)

generate_all_folders(ctx, T, folder, info_list) ==
    generate_folder_struct(
        generate_all_folders_children(ctx, T, T.folders[folder].children, info_list),
        T, folder, info_list)

\* the declarations of the generated header, in the order written
RECURSIVE generate_folder_extern_decls(_, _, _)
generate_folder_extern_decls(T, ids, w) ==
    IF ids = <<>> THEN w
    ELSE generate_folder_extern_decls(T, Tail(ids),
            generate_folder_extern_decls(T, T.folders[Head(ids)].children,
                Append(w, Written(make_dir_symbol(Name, T.folders[Head(ids)].path), {}))))

RECURSIVE generate_file_extern_decls(_, _, _)
RECURSIVE generate_file_extern_decls_children(_, _, _)
generate_file_extern_decls_children(T, ids, w) ==
    IF ids = <<>> THEN w
    ELSE generate_file_extern_decls_children(T, Tail(ids),
            generate_file_extern_decls(T, Head(ids), w))

generate_file_extern_decls(T, folder, w) ==
    generate_file_extern_decls_children(T, T.folders[folder].children,
        w \o [i \in 1..Len(T.folders[folder].files) |->
                Written(make_file_symbol(Name, T.files[T.folders[folder].files[i]].path),
                        {})])

generate_header(T) ==
    generate_file_extern_decls(T, ROOT,
        generate_folder_extern_decls(T, T.folders[ROOT].children,
            << Written(Name \o <<"_", "r", "o", "o", "t">>, {}) >>))

generate_source_FoldersFirst(T) ==
    LET c1 == generate_all_data([codegen_ctx EXCEPT !.w = generate_header(T)], T, ROOT)
        info_list == collect_folder_info(T, ROOT,
                        [list |-> <<>>, file_idx |-> 0, folder_idx |-> 0]).list
        c2 == generate_folder_forward_decls(c1, T, info_list)
        c3 == generate_all_file_metadata(c2, T, ROOT)
        c4 == generate_all_folders(c3, T, ROOT, info_list)
    IN  generate_all_files_arrays([c4 EXCEPT !.file_idx = 0], T, ROOT, info_list)

\* everything generate_source writes, in the order it writes it
\* (w starts with what #include "<header>" brings into the translation unit)
generate_source(T) ==
    LET c1 == generate_all_data([codegen_ctx EXCEPT !.w = generate_header(T)], T, ROOT)
        info_list == collect_folder_info(T, ROOT,
                        [list |-> <<>>, file_idx |-> 0, folder_idx |-> 0]).list
        c2 == generate_folder_forward_decls(c1, T, info_list)
        c3 == generate_all_file_metadata(c2, T, ROOT)
        c4 == generate_all_files_arrays([c3 EXCEPT !.file_idx = 0], T, ROOT, info_list)
    IN  generate_all_folders(c4, T, ROOT, info_list)

\* ------------------------------------------- compiling the generated source
\* The source compiles when no identifier is defined twice.
DefinedSymbols(out) ==
    [i \in 1..Len(out.folders) |-> out.folders[i].sym]
        \o [i \in 1..Len(out.arrays) |-> out.arrays[i].sym]
        \o [i \in 1..Len(out.aliases) |-> out.aliases[i].sym]

Linkable(out) ==
    LET syms == DefinedSymbols(out)
    IN  \A i, j \in 1..Len(syms) : syms[i] = syms[j] => i = j

Reverse(s) == [i \in 1..Len(s) |-> s[Len(s) + 1 - i]]

\* Every folder is a separate object: the order of the objects in memory is
\* the toolchain's choice, the order of definition or its reverse.
Layout(out, reversed) == IF reversed THEN Reverse(out.folders) ELSE out.folders

AddressOf(layout, sym) ==
    IF sym = NULL_LIT THEN NULL
    ELSE CHOOSE a \in 1..Len(layout) : layout[a].sym = sym

c_metadata_array(out, index) ==
    IF index < 0 THEN <<>>
    ELSE LET items == out.meta[index + 1].items
         IN  [i \in 1..Len(items) |-> << c_string_literal(items[i][1]),
                                         c_string_literal(items[i][2]) >>]

c_files_array(out, layout, sym) ==
    IF sym = NULL_LIT THEN <<>>
    ELSE LET arr == CHOOSE x \in { out.arrays[i] : i \in 1..Len(out.arrays) } :
                        x.sym = sym
         IN  [i \in 1..Len(arr.items) |->
                [name |-> c_string_literal(arr.items[i].name),
                 path |-> c_string_literal(arr.items[i].path),
                 mime |-> c_string_literal(arr.items[i].mime),
                 data |-> c_byte_array(out.data[arr.items[i].data + 1].bytes),
                 size |-> arr.items[i].size,
                 parent |-> AddressOf(layout, arr.items[i].parent),
                 metadata |-> c_metadata_array(out, arr.items[i].metadata),
                 metadata_count |-> arr.items[i].metadata_count]]

c_folder(out, layout, struct) ==
    [name |-> c_string_literal(struct.name),
     path |-> c_string_literal(struct.path),
     parent |-> AddressOf(layout, struct.parent),
     children |-> AddressOf(layout, struct.children),
     child_count |-> struct.child_count,
     files |-> c_files_array(out, layout, struct.files),
     file_count |-> struct.file_count,
     metadata |-> c_metadata_array(out, struct.metadata),
     metadata_count |-> struct.metadata_count]

NoImage == [ok |-> FALSE, out |-> codegen_ctx, mem |-> <<>>, root |-> NULL]

\* the program image: mem[a] is the folder object at address a
cc_link(out, reversed) ==
    LET layout == Layout(out, reversed)
    IN  IF ~Linkable(out) THEN [NoImage EXCEPT !.out = out]
        ELSE [ok |-> TRUE, out |-> out,
              mem |-> [a \in 1..Len(layout) |-> c_folder(out, layout, layout[a])],
              root |-> AddressOf(layout, make_dir_symbol(Name, <<>>))]

\* ------------------------------------------------------- runtime library
CIRF_MAX_PATH == 256

\* what lies at an address that holds no folder object of the image
WildFolder ==
    [name |-> <<"?">>, path |-> <<"?">>, parent |-> NULL, children |-> NULL,
     child_count |-> 0, files |-> <<>>, file_count |-> 0, metadata |-> <<>>,
     metadata_count |-> 0]

FolderAt(image, a) ==
    IF a \in 1..Len(image.mem) THEN image.mem[a] ELSE WildFolder

\* a cirf_file_t pointer: &folder->files[index - 1]
NullFile == [folder |-> NULL, index |-> 0]
FileAt(image, fp) == FolderAt(image, fp.folder).files[fp.index]

\* for(i = 0; i < current->child_count; i++) over current->children[i]
RECURSIVE cirf_find_child(_, _, _, _)
cirf_find_child(image, current, comp, i) ==
    LET cur == FolderAt(image, current)
    IN  IF i >= cur.child_count THEN NULL
        ELSE IF FolderAt(image, cur.children + i).name = comp THEN cur.children + i
        ELSE cirf_find_child(image, current, comp, i + 1)

RECURSIVE skip_slashes(_)
skip_slashes(p) == IF p # <<>> /\ Head(p) = SLASH THEN skip_slashes(Tail(p)) ELSE p

RECURSIVE component_len(_)
component_len(p) ==
    IF p = <<>> \/ Head(p) = SLASH THEN 0 ELSE 1 + component_len(Tail(p))

\* the while(*p && current) loop of cirf_find_folder
RECURSIVE cirf_find_folder_walk(_, _, _)
cirf_find_folder_walk(image, current, p) ==
    IF p = <<>> \/ current = NULL THEN current
    ELSE LET q == skip_slashes(p)
             len == component_len(q)
         IN  IF q = <<>> THEN current
             ELSE cirf_find_folder_walk(image,
                    cirf_find_child(image, current, SubSeq(q, 1, len), 0),
                    SubSeq(q, len + 1, Len(q)))

cirf_find_folder(image, root, path) ==
    IF root = NULL THEN NULL
    ELSE IF path = <<>> THEN root
    ELSE cirf_find_folder_walk(image, root, path)

\* for(i = 0; i < folder->file_count; i++) over folder->files[i]
RECURSIVE cirf_find_in_files(_, _, _, _)
cirf_find_in_files(image, folder, name, i) ==
    LET f == FolderAt(image, folder)
    IN  IF i >= f.file_count THEN NullFile
        ELSE IF f.files[i + 1].name = name THEN [folder |-> folder, index |-> i + 1]
        ELSE cirf_find_in_files(image, folder, name, i + 1)

cirf_find_file(image, root, path) ==
    LET slash == strrchr_slash(path, Len(path))
        folder_len == slash - 1
        folder == cirf_find_folder(image, root, SubSeq(path, 1, folder_len))
    IN  IF root = NULL THEN NullFile
        ELSE IF slash = 0 THEN cirf_find_in_files(image, root, path, 0)
        ELSE IF cirf_find_folder(image, root, path) # NULL THEN NullFile
        ELSE IF folder_len >= CIRF_MAX_PATH THEN NullFile
        ELSE IF folder = NULL THEN NullFile
        ELSE cirf_find_in_files(image, folder, SubSeq(path, slash + 1, Len(path)), 0)

RECURSIVE cirf_count_folders(_, _)
RECURSIVE cirf_count_folders_loop(_, _, _)
cirf_count_folders_loop(image, folder, i) ==
    IF i >= FolderAt(image, folder).child_count THEN 0
    ELSE cirf_count_folders(image, FolderAt(image, folder).children + i)
            + cirf_count_folders_loop(image, folder, i + 1)

cirf_count_folders(image, folder) ==
    IF folder = NULL THEN 0
    ELSE FolderAt(image, folder).child_count + cirf_count_folders_loop(image, folder, 0)

\* cirf_get_metadata on an array of count entries: NULL is <<>>
RECURSIVE cirf_get_metadata_loop(_, _, _, _)
cirf_get_metadata_loop(metadata, count, key, i) ==
    IF i >= count THEN <<>>
    ELSE IF metadata[i + 1][1] = key THEN << metadata[i + 1][2] >>
    ELSE cirf_get_metadata_loop(metadata, count, key, i + 1)

cirf_get_metadata(metadata, count, key) ==
    IF metadata = <<>> THEN <<>> ELSE cirf_get_metadata_loop(metadata, count, key, 0)

\* the calls of the visitor, in order: the file pointers it was given
cirf_foreach_file(image, folder) ==
    IF folder = NULL THEN <<>>
    ELSE [i \in 1..FolderAt(image, folder).file_count |->
            [folder |-> folder, index |-> i]]

RECURSIVE cirf_foreach_file_recursive(_, _)
RECURSIVE cirf_foreach_file_recursive_loop(_, _, _)
cirf_foreach_file_recursive_loop(image, folder, i) ==
    IF i >= FolderAt(image, folder).child_count THEN <<>>
    ELSE cirf_foreach_file_recursive(image, FolderAt(image, folder).children + i)
            \o cirf_foreach_file_recursive_loop(image, folder, i + 1)

cirf_foreach_file_recursive(image, folder) ==
    IF folder = NULL THEN <<>>
    ELSE [i \in 1..FolderAt(image, folder).file_count |->
            [folder |-> folder, index |-> i]]
            \o cirf_foreach_file_recursive_loop(image, folder, 0)

RECURSIVE cirf_count_files(_, _)
RECURSIVE cirf_count_files_loop(_, _, _)
cirf_count_files_loop(image, folder, i) ==
    IF i >= FolderAt(image, folder).child_count THEN 0
    ELSE cirf_count_files(image, FolderAt(image, folder).children + i)
            + cirf_count_files_loop(image, folder, i + 1)

cirf_count_files(image, folder) ==
    IF folder = NULL THEN 0
    ELSE FolderAt(image, folder).file_count + cirf_count_files_loop(image, folder, 0)

\* ------------------------------------------------------ one run of the tool
\* paths handed to the lookups of the runtime library
LookupPaths ==
    { <<>>, <<"c">>, <<"h">>, <<"c", ".", "h">>, <<"h", "/", "c">>,
      <<"h", "/", "c", ".", "h">>, <<"h", "/", "c", "/", "c">>,
      <<"/", "c">>, <<"h", "/", "/", "c">>, <<"h", "/">> }

\* main: config_load on a fresh configuration; r is what config_load returned
ConfigLoaded(r, json, malloc0_null) ==
    /\ folders' = r.T.folders
    /\ files' = r.T.files
    /\ last' = [op |-> "config_load", path |-> ConfigPath,
                ret |-> IF r.out THEN ROOT ELSE NULL,
                err |-> r.err, log |-> r.log, json |-> json,
                built |-> r.built, pass |-> r.pass, malloc0_null |-> malloc0_null]
    /\ UNCHANGED <<img, mounts>>

ConfigLoad(json, order, malloc0_null) ==
    ConfigLoaded(config_load(json, ConfigPath, order, malloc0_null), json, malloc0_null)

\* main: codegen_generate on the loaded configuration, and the build of the
\* generated source into the program that uses the runtime library
Generate(reversed) ==
    /\ last.op = "config_load" /\ last.ret # NULL
    /\ img' = cc_link(generate_source(Tree), reversed)
    /\ last' = [op |-> "codegen_generate", path |-> <<>>, ret |-> ROOT,
                err |-> "CIRF_OK"]
    /\ UNCHANGED <<folders, files, mounts>>

\* config_load_deps on a fresh configuration; r is what it returned
ConfigLoadedDeps(r, json, order) ==
    /\ folders' = r.T.folders
    /\ files' = r.T.files
    /\ last' = [op |-> "config_load_deps", path |-> ConfigPath,
                ret |-> IF r.out THEN ROOT ELSE NULL,
                err |-> r.err, log |-> r.log, json |-> json, order |-> order]
    /\ UNCHANGED <<img, mounts>>

ConfigLoadDeps(json, order) ==
    ConfigLoadedDeps(config_load_deps(json, ConfigPath, order), json, order)

\* main in dependency mode: config_get_source_paths on the configuration
GetSourcePaths ==
    /\ last.op = "config_load_deps" /\ last.ret # NULL
    /\ last' = [op |-> "config_get_source_paths", path |-> <<>>,
                ret |-> config_get_source_paths(Tree)]
    /\ UNCHANGED <<folders, files, img, mounts>>

FindFile(path) ==
    /\ img.ok
    /\ last' = [op |-> "cirf_find_file", path |-> path,
                file |-> cirf_find_file(img, img.root, path)]
    /\ UNCHANGED <<folders, files, img, mounts>>

FindFolder(path) ==
    /\ img.ok
    /\ last' = [op |-> "cirf_find_folder", path |-> path,
                ret |-> cirf_find_folder(img, img.root, path)]
    /\ UNCHANGED <<folders, files, img, mounts>>

CountFolders(folder) ==
    /\ img.ok
    /\ last' = [op |-> "cirf_count_folders", path |-> <<>>, folder |-> folder,
                ret |-> cirf_count_folders(img, folder)]
    /\ UNCHANGED <<folders, files, img, mounts>>

ForeachFile(folder) ==
    /\ img.ok
    /\ last' = [op |-> "cirf_foreach_file", path |-> <<>>, folder |-> folder,
                visited |-> cirf_foreach_file(img, folder)]
    /\ UNCHANGED <<folders, files, img, mounts>>

ForeachFileRecursive(folder) ==
    /\ img.ok
    /\ last' = [op |-> "cirf_foreach_file_recursive", path |-> <<>>, folder |-> folder,
                visited |-> cirf_foreach_file_recursive(img, folder)]
    /\ UNCHANGED <<folders, files, img, mounts>>

CountFiles(folder) ==
    /\ img.ok
    /\ last' = [op |-> "cirf_count_files", path |-> <<>>, folder |-> folder,
                ret |-> cirf_count_files(img, folder)]
    /\ UNCHANGED <<folders, files, img, mounts>>

NextTool ==
    \/ /\ last.op = "vfs_create_root"
       /\ \E json \in Manifests, order \in ReadDirOrders, malloc0_null \in BOOLEAN :
             ConfigLoad(json, order, malloc0_null)
    \/ /\ last.op = "vfs_create_root"
       /\ \E json \in Manifests, order \in ReadDirOrders : ConfigLoadDeps(json, order)
    \/ GetSourcePaths
    \/ \E reversed \in BOOLEAN : Generate(reversed)
    \/ \E path \in LookupPaths : FindFile(path)
    \/ \E path \in LookupPaths : FindFolder(path)
    \/ CountFolders(img.root)
    \* (the image holds one folder object for every folder of the tree)
    \/ \E folder \in 1..Len(folders) : ForeachFile(folder)
    \/ \E folder \in 1..Len(folders) : ForeachFileRecursive(folder)
    \/ \E folder \in 1..Len(folders) : CountFiles(folder)

SpecTool == Init /\ [][NextTool]_vars

\* ------------------------------------------------------------- mount table
\* mounts is the list cirf_mounts, head first.  Each entry also carries its
\* rank t by time of mounting among the entries present (1 is the oldest),
\* which the code does not store and the claims refer to.
MaxMounts == 2

strlen(s) == Len(s)

\* strncmp(a, b, n) == 0: the first n characters agree, or both strings
\* end before that
RECURSIVE strncmp_eq(_, _, _)
strncmp_eq(a, b, n) ==
    IF n = 0 THEN TRUE
    ELSE IF a = <<>> \/ b = <<>> THEN a = <<>> /\ b = <<>>
    ELSE Head(a) = Head(b) /\ strncmp_eq(Tail(a), Tail(b), n - 1)

cirf_mount_Append(table, prefix, root, t) ==
    IF root = NULL THEN [table |-> table, ret |-> 0 - 1]
    ELSE [table |-> Append(table, [prefix |-> prefix, root |-> root, t |-> t]),
          ret |-> 0]

cirf_mount(table, prefix, root, t) ==
    IF root = NULL THEN [table |-> table, ret |-> 0 - 1]
    ELSE [table |-> << [prefix |-> prefix, root |-> root, t |-> t] >> \o table,
          ret |-> 0]

RECURSIVE cirf_unmount_Oldest(_, _)
cirf_unmount_Oldest(table, prefix) ==
    IF table = <<>> THEN [table |-> table, ret |-> 0 - 1]
    ELSE LET r == cirf_unmount_Oldest(Tail(table), prefix)
         IN  IF r.ret = 0 THEN [table |-> <<Head(table)>> \o r.table, ret |-> 0]
             ELSE IF Head(table).prefix = prefix
             THEN [table |-> Tail(table), ret |-> 0]
             ELSE [table |-> table, ret |-> 0 - 1]

RECURSIVE cirf_unmount(_, _)
cirf_unmount(table, prefix) ==
    IF table = <<>> THEN [table |-> table, ret |-> 0 - 1]
    ELSE IF Head(table).prefix = prefix THEN [table |-> Tail(table), ret |-> 0]
    ELSE LET r == cirf_unmount(Tail(table), prefix)
         IN  [table |-> <<Head(table)>> \o r.table, ret |-> r.ret]

RECURSIVE cirf_resolve_file_FallThrough(_, _, _)
cirf_resolve_file_FallThrough(image, table, path) ==
    IF table = <<>> THEN NullFile
    ELSE LET m == Head(table)
             prefix_len == strlen(m.prefix)
             file == cirf_find_file(image, m.root, SubSeq(path, prefix_len + 1, Len(path)))
         IN  IF strncmp_eq(path, m.prefix, prefix_len) /\ file # NullFile
             THEN file
             ELSE cirf_resolve_file_FallThrough(image, Tail(table), path)

RECURSIVE cirf_resolve_file(_, _, _)
cirf_resolve_file(image, table, path) ==
    IF table = <<>> THEN NullFile
    ELSE LET m == Head(table)
             prefix_len == strlen(m.prefix)
         IN  IF strncmp_eq(path, m.prefix, prefix_len)
             THEN cirf_find_file(image, m.root, SubSeq(path, prefix_len + 1, Len(path)))
             ELSE cirf_resolve_file(image, Tail(table), path)

\* ------------------------------------------ a program that mounts and resolves
\* the embedded trees of the program: a file c beside a folder h that holds
\* a file c; and a folder h holding a file c and a folder c that holds a file c
RTManifests ==
    { [object |-> TRUE, metadata |-> <<>>, entries |-> <<D_h, E_c>>],
      [object |-> TRUE, metadata |-> <<>>, entries |-> <<E_hcc, E_hc>>] }

MountPrefixes == { <<>>, <<"/">>, <<"/", "h", "/">> }

ResolvePaths ==
    { <<>>, <<"c">>, <<"/", "c">>, <<"h", "/", "c">>, <<"/", "h", "/", "c">>,
      <<"/", "h", "/", "c", "/", "c">>, <<"/", "h">> }

\* the program with the tree T embedded
Embedded(T, reversed) ==
    /\ folders = T.folders
    /\ files = T.files
    /\ img = cc_link(generate_source(T), reversed)
    /\ mounts = <<>>
    /\ last = [op |-> "codegen_generate", path |-> <<>>, ret |-> ROOT,
               err |-> "CIRF_OK"]

InitRT ==
    \E json \in RTManifests, reversed \in BOOLEAN :
        Embedded(config_load(json, ConfigPath, <<NAME_C, NAME_CH, NAME_H>>, FALSE).T,
                 reversed)

NextT == Len(mounts) + 1

Mount(prefix, root) ==
    LET r == cirf_mount(mounts, prefix, root, NextT)
    IN  /\ Len(r.table) <= MaxMounts
        /\ mounts' = r.table
        /\ last' = [op |-> "cirf_mount", path |-> prefix, ret |-> r.ret]
        /\ UNCHANGED <<folders, files, img>>

Ranked(table) ==
    [i \in 1..Len(table) |->
        [table[i] EXCEPT !.t =
            Cardinality({ j \in 1..Len(table) : table[j].t <= table[i].t })]]

Unmount(prefix) ==
    LET r == cirf_unmount(mounts, prefix)
    IN  /\ mounts' = Ranked(r.table)
        /\ last' = [op |-> "cirf_unmount", path |-> prefix, ret |-> r.ret]
        /\ UNCHANGED <<folders, files, img>>

ResolveFile(path) ==
    /\ last' = [op |-> "cirf_resolve_file", path |-> path,
                file |-> cirf_resolve_file(img, mounts, path)]
    /\ UNCHANGED <<folders, files, img, mounts>>

NextRT ==
    \/ \E prefix \in MountPrefixes, root \in 0..Len(img.mem) : Mount(prefix, root)
    \/ \E prefix \in MountPrefixes : Unmount(prefix)
    \/ \E path \in ResolvePaths : ResolveFile(path)

SpecRT == InitRT /\ [][NextRT]_vars

\* ------------------------------------------- the functions called on their own
\* glob_pattern_match on every pattern and string of bounded length over the
\* wildcard characters, the separator and one ordinary character, and on the
\* pattern and the two relative paths of the manual's example
MaxPattern == 3
MaxString == 3

Strings(alphabet, n) == UNION { [1..k -> alphabet] : k \in 0..n }

PAT_JSON == <<"*", "*", "/", "*", ".", "j", "s", "o", "n">>
STR_API_CONFIG ==
    <<"a", "p", "i", "/", "c", "o", "n", "f", "i", "g", ".", "j", "s", "o", "n">>
STR_README == <<"r", "e", "a", "d", "m", "e", ".", "m", "d">>
PAT_A_ANY == <<"a", "*", "*", "/">>

GlobPatterns == Strings({"*", "?", SLASH, "a"}, MaxPattern) \cup {PAT_JSON, PAT_A_ANY}
GlobStrings == Strings({SLASH, "a"}, MaxString) \cup {STR_API_CONFIG, STR_README}

GlobPatternMatch(pattern, string) ==
    /\ last' = [op |-> "glob_pattern_match", pattern |-> pattern,
                string |-> string, ret |-> glob_pattern_match(pattern, string)]
    /\ UNCHANGED <<folders, files, img, mounts>>

NextPure ==
    \E pattern \in GlobPatterns, string \in GlobStrings :
        GlobPatternMatch(pattern, string)

SpecPure == Init /\ [][NextPure]_vars

\* ------------------------------------------------------ the command line
\* A string argument that may be NULL is a sequence of at most one token.
NoArg == <<>>

\* memset(opts, 0, sizeof(*opts))
NoOptions ==
    [name |-> NoArg, config_path |-> NoArg, output_path |-> NoArg,
     header_path |-> NoArg, depfile_path |-> NoArg, deps_mode |-> 0]

\* parse_args from argv[i] on.  exited: print_usage or print_version called
\* exit(0); ret is parse_args' return value otherwise.
RECURSIVE parse_args(_, _, _)
parse_args(argv, i, opts) ==
    IF i > Len(argv) THEN [exited |-> FALSE, ret |-> 0, opts |-> opts]
    ELSE LET arg == argv[i]
             missing == [exited |-> FALSE, ret |-> 0 - 1, opts |-> opts]
         IN  IF arg \in {"-h", "--help", "-v", "--version"}
             THEN [exited |-> TRUE, ret |-> 0, opts |-> opts]
             ELSE IF arg \in {"-n", "--name"}
             THEN IF i + 1 > Len(argv) THEN missing
                  ELSE parse_args(argv, i + 2, [opts EXCEPT !.name = <<argv[i + 1]>>])
             ELSE IF arg \in {"-c", "--config"}
             THEN IF i + 1 > Len(argv) THEN missing
                  ELSE parse_args(argv, i + 2,
                                  [opts EXCEPT !.config_path = <<argv[i + 1]>>])
             ELSE IF arg \in {"-o", "--output"}
             THEN IF i + 1 > Len(argv) THEN missing
                  ELSE parse_args(argv, i + 2,
                                  [opts EXCEPT !.output_path = <<argv[i + 1]>>])
             ELSE IF arg \in {"-H", "--header"}
             THEN IF i + 1 > Len(argv) THEN missing
                  ELSE parse_args(argv, i + 2,
                                  [opts EXCEPT !.header_path = <<argv[i + 1]>>])
             ELSE IF arg \in {"-d", "--deps"}
             THEN parse_args(argv, i + 1, [opts EXCEPT !.deps_mode = 1])
             ELSE IF arg \in {"-M", "--depfile"}
             THEN IF i + 1 > Len(argv) THEN missing
                  ELSE parse_args(argv, i + 2,
                                  [opts EXCEPT !.depfile_path = <<argv[i + 1]>>])
             ELSE \* Unknown option
                  missing

validate_options(opts) ==
    IF opts.deps_mode # 0 THEN opts.config_path # NoArg
    ELSE /\ opts.config_path # NoArg
         /\ opts.name # NoArg
         /\ opts.output_path # NoArg
         /\ opts.header_path # NoArg

\* codegen_generate as far as its result goes: the header is written first,
\* then the source; either file may fail to open
codegen_generate(options, env) ==
    IF options.source_path = NoArg \/ options.header_path = NoArg
    THEN "CIRF_ERR_INVALID"
    ELSE IF ~env.header_opens THEN "CIRF_ERR_IO"
    ELSE IF ~env.source_opens THEN "CIRF_ERR_IO"
    ELSE "CIRF_OK"

Step(call, err) == [call |-> call, err |-> err]

main_generate_IgnoreDepfile(opts, env) ==
    LET \* load, gen: what config_load and codegen_generate returned
        run(load, gen) ==
            LET s1 == << Step("config_load", load) >>
                s2 == s1 \o << Step("codegen_generate", gen) >>
            IN  IF load # "CIRF_OK" THEN [exit |-> 1, steps |-> s1]
                ELSE IF gen # "CIRF_OK" THEN [exit |-> 1, steps |-> s2]
                ELSE IF opts.depfile_path = NoArg THEN [exit |-> 0, steps |-> s2]
                ELSE IF ~env.depfile_opens
                THEN [exit |-> 0,
                      steps |-> s2 \o << Step("fopen_depfile", "NULL") >>]
                ELSE [exit |-> 0,
                      steps |-> s2 \o << Step("fopen_depfile", "CIRF_OK"),
                                         Step("write_depfile", "CIRF_OK") >>]
    IN  run(config_load(env.json, ConfigPath, <<NAME_C, NAME_CH, NAME_H>>, FALSE).err,
            codegen_generate([source_path |-> opts.output_path,
                              header_path |-> opts.header_path], env))

\* what main does once the options are valid and -d was not given
main_generate(opts, env) ==
    LET \* load, gen: what config_load and codegen_generate returned
        run(load, gen) ==
            LET s1 == << Step("config_load", load) >>
                s2 == s1 \o << Step("codegen_generate", gen) >>
            IN  IF load # "CIRF_OK" THEN [exit |-> 1, steps |-> s1]
                ELSE IF gen # "CIRF_OK" THEN [exit |-> 1, steps |-> s2]
                ELSE IF opts.depfile_path = NoArg THEN [exit |-> 0, steps |-> s2]
                ELSE IF ~env.depfile_opens
                THEN [exit |-> 1,
                      steps |-> s2 \o << Step("fopen_depfile", "NULL") >>]
                ELSE [exit |-> 0,
                      steps |-> s2 \o << Step("fopen_depfile", "CIRF_OK"),
                                         Step("write_depfile", "CIRF_OK") >>]
    IN  run(config_load(env.json, ConfigPath, <<NAME_C, NAME_CH, NAME_H>>, FALSE).err,
            codegen_generate([source_path |-> opts.output_path,
                              header_path |-> opts.header_path], env))

\* the manifest the argument of -c names is d/m
main(argv, env) ==
    LET p == parse_args(argv, 1, NoOptions)
        deps_mode(err) == [exit |-> IF err # "CIRF_OK" THEN 1 ELSE 0,
                           steps |-> << Step("config_load_deps", err) >>]
    IN  IF p.exited THEN [exit |-> 0, steps |-> <<>>]
        ELSE IF p.ret # 0 THEN [exit |-> 1, steps |-> <<>>]
        ELSE IF ~validate_options(p.opts) THEN [exit |-> 1, steps |-> <<>>]
        ELSE IF p.opts.deps_mode # 0
        THEN deps_mode(config_load_deps(env.json, ConfigPath,
                                        <<NAME_C, NAME_CH, NAME_H>>).err)
        ELSE main_generate(p.opts, env)

\* command lines: each option present or not, in the usual order, between a
\* first and a last argument that may be -h, -v, an unknown option or an
\* option without its value
Opt(present, tokens) == IF present THEN tokens ELSE <<>>

Edges == { <<>>, <<"-h">>, <<"-v">>, <<"-z">>, <<"-M">>, <<"-c">> }

CommandLines ==
    { first \o Opt(n, <<"-n", "r">>) \o Opt(c, <<"-c", "m">>)
            \o Opt(o, <<"-o", "r.c">>) \o Opt(h, <<"-H", "r.h">>)
            \o Opt(d, <<"-d">>) \o Opt(m, <<"-M", "r.d">>) \o final :
        first \in Edges, final \in Edges, n \in BOOLEAN, c \in BOOLEAN,
        o \in BOOLEAN, h \in BOOLEAN, d \in BOOLEAN, m \in BOOLEAN }

\* a source that is not on the disk: the manifest loads in deps mode only
E_nofile == FileEntry(<<"c">>, <<"x">>)

CliManifests ==
    { [object |-> TRUE, metadata |-> <<>>, entries |-> es] :
        es \in { <<E_c>>, <<X_link>>, <<E_nofile>> } }

Environments ==
    [json : CliManifests, header_opens : BOOLEAN, source_opens : BOOLEAN,
     depfile_opens : BOOLEAN]

Main(argv, env) ==
    /\ last' = [op |-> "main", argv |-> argv, env |-> env, run |-> main(argv, env)]
    /\ UNCHANGED <<folders, files, img, mounts>>

\* the program is run once
NextCli ==
    /\ last.op = "vfs_create_root"
    /\ \E argv \in CommandLines, env \in Environments : Main(argv, env)

SpecCli == Init /\ [][NextCli]_vars

\* ------------------------------------------ loading file data by hand
\* a file entry h/x whose source does not exist
E_hx == FileEntry(<<"h", "/", "x">>, <<"x">>)

MaxLoadEntries == 2

LoadPool == { E_c, E_hc, E_hcc, E_hx, E_nofile }

\* short manifests of file entries, and one whose pre-order is not the
\* order of insertion, with a missing source in the middle
LoadManifests ==
    { [object |-> TRUE, metadata |-> <<>>, entries |-> es] :
        es \in UNION { [1..n -> LoadPool] : n \in 0..MaxLoadEntries }
                \cup { << E_hcc, E_hx, E_hc, E_c >> } }

\* the calls that may follow: the behaviour of malloc(0) is the platform's,
\* the same at every call
LoadCallAllowed(malloc0_null) ==
    \/ last.op = "config_load_deps" /\ last.ret # NULL
    \/ /\ last.op \in {"vfs_load_file_data", "vfs_load_all_data"}
       /\ last.malloc0_null = malloc0_null

LoadFileData(file, malloc0_null) ==
    /\ LoadCallAllowed(malloc0_null)
    /\ LET r == vfs_load_file_data(Tree, file, malloc0_null)
       IN  /\ files' = r.T.files
           /\ last' = [op |-> "vfs_load_file_data", file |-> file, err |-> r.err,
                        malloc0_null |-> malloc0_null]
    /\ UNCHANGED <<folders, img, mounts>>

LoadAllData(malloc0_null) ==
    /\ LoadCallAllowed(malloc0_null)
    /\ LET r == vfs_load_all_data(Tree, ROOT, malloc0_null)
       IN  /\ files' = r.T.files
           /\ last' = [op |-> "vfs_load_all_data", before |-> Tree, err |-> r.err,
                        malloc0_null |-> malloc0_null]
    /\ UNCHANGED <<folders, img, mounts>>

NextLoad ==
    \/ /\ last.op = "vfs_create_root"
       /\ \E json \in LoadManifests, malloc0_null \in BOOLEAN :
             ConfigLoad(json, <<NAME_C, NAME_CH, NAME_H>>, malloc0_null)
    \/ /\ last.op = "vfs_create_root"
       /\ \E json \in LoadManifests : ConfigLoadDeps(json, <<NAME_C, NAME_CH, NAME_H>>)
    \/ \E file \in 1..Len(files), malloc0_null \in BOOLEAN :
          LoadFileData(file, malloc0_null)
    \/ \E malloc0_null \in BOOLEAN : LoadAllData(malloc0_null)

SpecLoad == Init /\ [][NextLoad]_vars

\* --------------------------------------------- metadata of the root by hand
MaxMeta == 3

MetaKeys == { <<"k">>, <<"n">> }
\* the last value is a backspace followed by the letter c
MetaValues == { <<"v">>, <<"w">>, <<"^H", "c">> }

AddMetadata(key, value) ==
    /\ ~img.ok
    /\ Len(folders[ROOT].metadata) < MaxMeta
    /\ folders' = [folders EXCEPT ![ROOT].metadata = vfs_add_metadata(@, key, value)]
    /\ last' = [op |-> "vfs_add_metadata", key |-> key, value |-> value,
                before |-> folders[ROOT].metadata]
    /\ UNCHANGED <<files, img, mounts>>

VfsGetMetadata(key) ==
    /\ ~img.ok
    /\ last' = [op |-> "vfs_get_metadata", key |-> key,
                ret |-> vfs_get_metadata(folders[ROOT].metadata, key)]
    /\ UNCHANGED <<folders, files, img, mounts>>

\* codegen_generate on the tree, and the build of the generated source
GenerateBuilt(reversed) ==
    /\ ~img.ok
    /\ img' = cc_link(generate_source(Tree), reversed)
    /\ last' = [op |-> "codegen_generate", path |-> <<>>, ret |-> ROOT,
                err |-> "CIRF_OK"]
    /\ UNCHANGED <<folders, files, mounts>>

CirfGetMetadata(key) ==
    /\ img.ok
    /\ last' = [op |-> "cirf_get_metadata", key |-> key,
                ret |-> cirf_get_metadata(FolderAt(img, img.root).metadata,
                                          FolderAt(img, img.root).metadata_count, key)]
    /\ UNCHANGED <<folders, files, img, mounts>>

NextMeta ==
    \/ \E key \in MetaKeys, value \in MetaValues : AddMetadata(key, value)
    \/ \E key \in MetaKeys : VfsGetMetadata(key)
    \/ \E reversed \in BOOLEAN : GenerateBuilt(reversed)
    \/ \E key \in MetaKeys : CirfGetMetadata(key)

SpecMeta == Init /\ [][NextMeta]_vars

\* --------------------------------------------------------------- claims
FolderIds == 1..Len(folders)
FileIds == 1..Len(files)

SeqRange(s) == { s[i] : i \in 1..Len(s) }

\* C1: vfs_ensure_folder(root, p) called again with the same p on the tree
\* the first call left returns the same folder and adds no folder.
C1_EnsureFolderIdempotent ==
    last.op = "vfs_ensure_folder" =>
        LET again == vfs_ensure_folder(Tree, ROOT, last.path)
        IN  /\ again.ret = last.ret
            /\ again.T = Tree

C1_Witness ==
    /\ last.op = "vfs_ensure_folder"
    /\ Len(strtok_r(last.path, <<>>)) = 2
    /\ last.ret = Len(folders)
    /\ Len(folders) = 3

\* C2 (as claimed): path == name when the parent is the root, and
\* path == parent.path + "/" + name otherwise, for every file and every
\* non-root folder.
ClaimedPath(parent, name) ==
    IF parent = ROOT THEN name ELSE folders[parent].path \o <<SLASH>> \o name

C2_PathIsParentJoinName ==
    /\ \A i \in FileIds : files[i].path = ClaimedPath(files[i].parent, files[i].name)
    /\ \A i \in FolderIds \ {ROOT} :
          folders[i].path = ClaimedPath(folders[i].parent, folders[i].name)

\* C3: no folder has two direct child folders with the same name, and no
\* folder has two direct files with the same name.
C3_SiblingNamesUnique ==
    \A f \in FolderIds :
        /\ \A i, j \in 1..Len(folders[f].children) :
              folders[folders[f].children[i]].name = folders[folders[f].children[j]].name
                  => i = j
        /\ \A i, j \in 1..Len(folders[f].files) :
              files[folders[f].files[i]].name = files[folders[f].files[j]].name
                  => i = j

C3_Witness ==
    /\ last.op = "vfs_add_file" /\ last.ret = NULL
    /\ \E f \in FolderIds : Len(folders[f].children) = 2 /\ Len(folders[f].files) = 1

\* C4: exactly one folder has a null parent, the root, named "" with path
\* ""; every other folder is in the children list of exactly its parent and
\* every file is in the files list of exactly its parent.
C4_OneRootAndParentLinks ==
    /\ { f \in FolderIds : folders[f].parent = NULL } = {ROOT}
    /\ folders[ROOT].name = <<>> /\ folders[ROOT].path = <<>>
    /\ \A f \in FolderIds \ {ROOT} : \A g \in FolderIds :
          (f \in SeqRange(folders[g].children)) <=> (folders[f].parent = g)
    /\ \A x \in FileIds : \A g \in FolderIds :
          (x \in SeqRange(folders[g].files)) <=> (files[x].parent = g)
    /\ \A g \in FolderIds :
          /\ Cardinality(SeqRange(folders[g].children)) = Len(folders[g].children)
          /\ Cardinality(SeqRange(folders[g].files)) = Len(folders[g].files)

C4_Witness ==
    /\ Len(folders) = 3 /\ Len(files) = 1
    /\ folders[3].parent = 2
    /\ \E x \in FileIds : files[x].parent = 3

\* ---- manifest interpretation
Components(s) == strtok_r(s, <<>>)

\* the virtual path an explicit file entry names: the folders of the parent
\* path, the folders of the entry path, and the leaf name
VirtualPathOf(parent_path, path) ==
    LET ls == strrchr_slash(path, Len(path))
    IN  Components(parent_path) \o Components(SubSeq(path, 1, ls - 1))
            \o << SubSeq(path, ls + 1, Len(path)) >>

IsFileEntryEvent(e) ==
    /\ e.ev = "entry" /\ e.entry.object /\ e.entry.type = "file"
    /\ {"type", "path", "source"} \subseteq e.entry.strings

\* the position of the first "done" event after position k
DoneAfter(log, k) ==
    CHOOSE d \in (k + 1)..Len(log) :
        /\ log[d].ev = "done"
        /\ \A j \in (k + 1)..(d - 1) : log[j].ev # "done"

\* the position of the last "entry" event before position k
EntryBefore(log, k) ==
    CHOOSE b \in 1..(k - 1) :
        /\ log[b].ev = "entry"
        /\ \A j \in (b + 1)..(k - 1) : log[j].ev # "entry"

\* the files below the manifest's directory, relative to it
DiskRelFiles == { <<"c">>, <<"c", ".", "h">>, <<"h", "/", "c">> }

\* C5: a second explicit file entry for a virtual path fails the load with
\* the duplicate-entry error; a glob match whose virtual path already exists
\* is skipped, the glob entry still succeeds after visiting every matching
\* file, and interpretation goes on with the entries that follow.
C5_DuplicateFileFatalGlobTolerant ==
    last.op = "config_load" =>
        LET log == last.log
        IN  /\ \A i, j \in 1..Len(log) :
                  ( /\ i < j
                    /\ IsFileEntryEvent(log[i]) /\ IsFileEntryEvent(log[j])
                    /\ VirtualPathOf(log[i].path, log[i].entry.path)
                         = VirtualPathOf(log[j].path, log[j].entry.path) )
                  => /\ log[j + 1].ev = "done"
                     /\ log[j + 1].err = "CIRF_ERR_DUPLICATE"
                     /\ last.err = "CIRF_ERR_DUPLICATE"
                     /\ last.ret = NULL
            /\ \A k \in 1..Len(log) :
                  (log[k].ev = "match" /\ ~log[k].added)
                  => LET b == EntryBefore(log, k)
                         d == DoneAfter(log, k)
                         pat == log[b].entry.pattern
                     IN  /\ log[d].err = "CIRF_OK"
                         /\ Cardinality({ m \in b..d : log[m].ev = "match" })
                              = Cardinality({ f \in DiskRelFiles :
                                                glob_pattern_match(pat, f) })
                         /\ d < Len(log) =>
                              (log[d + 1].ev = "entry" \/ log[d + 1].err = "CIRF_OK")
                         /\ last.err # "CIRF_ERR_DUPLICATE" \/
                              \E j \in (d + 1)..Len(log) : IsFileEntryEvent(log[j])

\* an explicit file h/c, then a glob into h whose matches c and h/c both
\* collide with it: both are skipped, c.h is added, the load succeeds
C5_Witness ==
    /\ last.op = "config_load"
    /\ last.err = "CIRF_OK"
    /\ \E i, k, m \in 1..Len(last.log) :
          /\ i < k /\ k < m
          /\ IsFileEntryEvent(last.log[i])
          /\ last.log[k].ev = "match" /\ ~last.log[k].added
          /\ last.log[m].ev = "match" /\ last.log[m].added

\* ---- generated output
\* the position of the record with symbol sym in the emitted folder records
EmittedAt(out, sym) ==
    CHOOSE e \in 1..Len(out.folders) : out.folders[e].sym = sym

\* C6 (as claimed): for every folder F, the child_count folder records that
\* start at the record F.children names, taken in the order the generator
\* wrote them, are F's direct child folders in order.
C6_ChildrenContiguousInEmissionOrder ==
    (last.op = "codegen_generate" /\ img.ok) =>
        \A e \in 1..Len(img.out.folders) :
            LET rec == img.out.folders[e]
                kids == folders[rec.folder].children
            IN  /\ rec.child_count = Len(kids)
                /\ kids # <<>> =>
                      LET first == EmittedAt(img.out, rec.children)
                      IN  \A i \in 1..Len(kids) :
                            /\ first + i - 1 <= Len(img.out.folders)
                            /\ img.out.folders[first + i - 1].folder = kids[i]

\* C7 (as claimed): every file of the tree, looked up by its path with
\* cirf_find_file on the generated tree, is found with the same path, mime,
\* size, bytes and metadata pairs in order.
C7_RoundTrip ==
    (last.op = "cirf_find_file" /\ \E x \in FileIds : files[x].path = last.path) =>
        \A x \in FileIds : files[x].path = last.path =>
            /\ last.file # NullFile
            /\ LET f == FileAt(img, last.file)
               IN  /\ f.path = files[x].path
                   /\ f.mime = files[x].mime
                   /\ f.size = files[x].size
                   /\ f.data = files[x].data
                   /\ f.metadata = files[x].metadata
                   /\ f.metadata_count = Len(files[x].metadata)

\* ---- runtime lookups
\* the files of the folder at address a that have the given name
StoredFiles(a, name) ==
    { i \in 1..FolderAt(img, a).file_count : FolderAt(img, a).files[i].name = name }

\* C8 (as claimed): cirf_find_file(root, path) returns the file that has the
\* name after the last '/' in the folder that the part before the last '/'
\* names (root itself when the path has no '/'), and not-found when there is
\* no such file, in particular when the path names only a folder.
C8_FindFileByFolderAndName ==
    last.op = "cirf_find_file" =>
        LET slash == strrchr_slash(last.path, Len(last.path))
            dir == IF slash = 0 THEN img.root
                   ELSE cirf_find_folder(img, img.root, SubSeq(last.path, 1, slash - 1))
            name == SubSeq(last.path, slash + 1, Len(last.path))
        IN  IF dir = NULL \/ StoredFiles(dir, name) = {}
            THEN last.file = NullFile
            ELSE /\ last.file.folder = dir
                 /\ last.file.index \in StoredFiles(dir, name)

\* C9 (as claimed): cirf_count_folders(root) is the sum of the direct child
\* counts of all folders of the tree, which is the number of folders other
\* than the root.
RECURSIVE SumChildCounts(_)
SumChildCounts(mem) ==
    IF mem = <<>> THEN 0 ELSE Head(mem).child_count + SumChildCounts(Tail(mem))

C9_CountFoldersIsSumOfChildCounts ==
    (last.op = "cirf_count_folders" /\ last.folder = img.root) =>
        /\ last.ret = SumChildCounts(img.mem)
        /\ last.ret = Len(img.mem) - 1

\* ---- mount table
IsPrefix(p, s) == Len(p) <= Len(s) /\ SubSeq(s, 1, Len(p)) = p

\* C10: cirf_resolve_file(path) answers with cirf_find_file on the root of
\* the most recently mounted entry whose prefix is a prefix of path, given
\* the path without that prefix, and with not-found when no prefix matches.
C10_ResolveFirstMatchMostRecent ==
    last.op = "cirf_resolve_file" =>
        LET matching == { i \in 1..Len(mounts) : IsPrefix(mounts[i].prefix, last.path) }
        IN  IF matching = {} THEN last.file = NullFile
            ELSE LET m == CHOOSE i \in matching :
                              \A j \in matching : mounts[j].t <= mounts[i].t
                 IN  last.file =
                        cirf_find_file(img, mounts[m].root,
                            SubSeq(last.path, Len(mounts[m].prefix) + 1, Len(last.path)))

\* an older mount of "/" on the root and a newer mount of "/h/" on another
\* folder both match; the newer one answers, and finds a file
C10_Witness ==
    /\ last.op = "cirf_resolve_file"
    /\ last.file # NullFile
    /\ \E i, j \in 1..Len(mounts) :
          /\ mounts[i].t < mounts[j].t
          /\ mounts[i].root # mounts[j].root
          /\ mounts[i].prefix # mounts[j].prefix
          /\ IsPrefix(mounts[i].prefix, last.path)
          /\ IsPrefix(mounts[j].prefix, last.path)
          /\ cirf_find_file(img, mounts[i].root,
                 SubSeq(last.path, Len(mounts[i].prefix) + 1, Len(last.path)))
               # last.file

\* ---------------------------------------------------------------- C11
\* a mount entry without its time stamp, and a table without its i-th entry
Strip(table) ==
    [i \in 1..Len(table) |-> [prefix |-> table[i].prefix, root |-> table[i].root]]

Without(table, i) == SubSeq(table, 1, i - 1) \o SubSeq(table, i + 1, Len(table))

\* what resolve must answer on a table: the most recently mounted entry
\* whose prefix starts the path decides
ResolveByRecency(table, path) ==
    LET matching == { i \in 1..Len(table) : IsPrefix(table[i].prefix, path) }
    IN  IF matching = {} THEN NullFile
        ELSE LET m == CHOOSE i \in matching :
                          \A j \in matching : table[j].t <= table[i].t
             IN  cirf_find_file(img, table[m].root,
                    SubSeq(path, Len(table[m].prefix) + 1, Len(path)))

\* C11: a successful mount adds one entry and keeps every earlier one, the
\* new entry (even with a prefix already mounted) answering resolve for the
\* paths it matches; a successful unmount(prefix) removes exactly one entry,
\* the most recently mounted one with exactly that prefix, after which
\* resolve answers from the remaining entries, the earlier mount of that
\* prefix included; unmount of a prefix with no entry returns -1 and leaves
\* the table unchanged.
C11_MountShadowsUnmountRemovesLatest ==
    [][ /\ (last'.op = "cirf_mount" /\ last'.ret = 0) =>
              \E k \in 1..Len(mounts') :
                  /\ mounts'[k].prefix = last'.path
                  /\ \A j \in 1..Len(mounts') : mounts'[j].t <= mounts'[k].t
                  /\ Strip(Without(mounts', k)) = Strip(mounts)
                  /\ \A path \in ResolvePaths :
                        IsPrefix(last'.path, path) =>
                            cirf_resolve_file(img, mounts', path) =
                                cirf_find_file(img, mounts'[k].root,
                                    SubSeq(path, Len(last'.path) + 1, Len(path)))
        /\ last'.op = "cirf_unmount" =>
              LET same == { i \in 1..Len(mounts) : mounts[i].prefix = last'.path }
              IN  IF same = {}
                  THEN last'.ret = 0 - 1 /\ mounts' = mounts
                  ELSE /\ last'.ret = 0
                       /\ \E k \in same :
                             /\ \A j \in same : mounts[j].t <= mounts[k].t
                             /\ Strip(mounts') = Strip(Without(mounts, k))
                             /\ \A i, j \in 1..Len(mounts') :
                                   (mounts'[i].t < mounts'[j].t) <=>
                                   (Without(mounts, k)[i].t < Without(mounts, k)[j].t)
                       /\ \A path \in ResolvePaths :
                             cirf_resolve_file(img, mounts', path) =
                                 ResolveByRecency(mounts', path)
      ]_vars

\* one prefix was mounted twice on different folders and unmounted once: an
\* entry with that prefix is still in the table
C11_Witness ==
    /\ last.op = "cirf_unmount"
    /\ last.ret = 0
    /\ \E i \in 1..Len(mounts) : mounts[i].prefix = last.path
    /\ \E path \in ResolvePaths :
          /\ IsPrefix(last.path, path)
          /\ cirf_resolve_file(img, mounts, path) # NullFile

\* ---------------------------------------------------------------- C12
\* the wildcard matcher of the manual: "**", with the "/" after it when there
\* is one, stands for any run of characters; "*" for any run of characters
\* other than "/"; "?" for one character other than "/"; every other
\* character for itself
RECURSIVE WildcardMatch(_, _)
WildcardMatch(pattern, string) ==
    IF pattern = <<>> THEN string = <<>>
    ELSE IF Len(pattern) >= 2 /\ pattern[1] = "*" /\ pattern[2] = "*"
    THEN LET rest == IF Len(pattern) >= 3 /\ pattern[3] = SLASH
                     THEN SubSeq(pattern, 4, Len(pattern))
                     ELSE SubSeq(pattern, 3, Len(pattern))
         IN  \E k \in 0..Len(string) :
                WildcardMatch(rest, SubSeq(string, k + 1, Len(string)))
    ELSE IF Head(pattern) = "*"
    THEN \E k \in 0..Len(string) :
            /\ \A i \in 1..k : string[i] # SLASH
            /\ WildcardMatch(Tail(pattern), SubSeq(string, k + 1, Len(string)))
    ELSE IF Head(pattern) = "?"
    THEN string # <<>> /\ Head(string) # SLASH
            /\ WildcardMatch(Tail(pattern), Tail(string))
    ELSE string # <<>> /\ Head(string) = Head(pattern)
            /\ WildcardMatch(Tail(pattern), Tail(string))

\* C12: glob_pattern_match(pattern, string) answers as the wildcard matcher
\* does, for every pattern and string; "**/*.json" matches "api/config.json"
\* and does not match "readme.md".
C12_GlobAgreesWithWildcardMatch ==
    last.op = "glob_pattern_match" =>
        /\ (last.ret <=> WildcardMatch(last.pattern, last.string))
        /\ (last.pattern = PAT_JSON /\ last.string = STR_API_CONFIG) => last.ret
        /\ (last.pattern = PAT_JSON /\ last.string = STR_README) => ~last.ret

\* ---------------------------------------------------------------- C13
\* an entry that is not an object, has no string "type", has an unknown
\* "type", or lacks a field its type requires
InvalidEntry(entry) ==
    \/ ~entry.object
    \/ "type" \notin entry.strings
    \/ entry.type \notin {"file", "folder", "glob"}
    \/ entry.type = "file" /\ ~({"path", "source"} \subseteq entry.strings)
    \/ entry.type = "folder" /\ "path" \notin entry.strings
    \/ entry.type = "glob" /\ ~({"pattern", "target"} \subseteq entry.strings)

\* C13: when manifest interpretation reaches an invalid entry, at top level
\* or inside a folder entry, config_load returns the invalid-argument error,
\* no entry after the offending one is processed (no later entry is entered,
\* no glob match is handled), and the caller gets no configuration and no
\* partial tree.
C13_InvalidEntryAbortsLoad ==
    last.op = "config_load" =>
        \A i \in 1..Len(last.log) :
            (last.log[i].ev = "entry" /\ InvalidEntry(last.log[i].entry))
            => /\ last.err = "CIRF_ERR_INVALID"
               /\ last.ret = NULL
               /\ \A j \in (i + 1)..Len(last.log) :
                     last.log[j].ev = "done" /\ last.log[j].err = "CIRF_ERR_INVALID"
               /\ folders = vfs_create_root.folders
               /\ files = <<>>

\* the offending entry sits inside a folder entry, after a file entry that
\* was added, before another entry of the folder, and the folder entry is
\* followed by a further entry
C13_Witness ==
    /\ last.op = "config_load"
    /\ Len(last.json.entries) = 2
    /\ \E i \in 2..Len(last.log) :
          /\ last.log[i].ev = "entry"
          /\ InvalidEntry(last.log[i].entry)
          /\ last.log[i].path = <<"h">>
          /\ last.log[i - 1].ev = "done" /\ last.log[i - 1].err = "CIRF_OK"
          /\ ~last.log[i].entry.object

\* ---------------------------------------------------------------- C14
Given(argv, flag) == \E i \in 1..Len(argv) : argv[i] = flag

RequiredFlagMissing(given) ==
    \/ "-c" \notin given
    \/ "-d" \notin given /\ ~({"-n", "-o", "-H"} \subseteq given)

SomeStepFailed(run) == \E k \in 1..Len(run.steps) : run.steps[k].err # "CIRF_OK"

\* code generation only after the config loaded, the depfile only after
\* code generation succeeded
StepsInOrder(run) ==
    \A k \in 1..Len(run.steps) :
        /\ run.steps[k].call = "codegen_generate" =>
              \E j \in 1..(k - 1) : run.steps[j] = Step("config_load", "CIRF_OK")
        /\ run.steps[k].call \in {"fopen_depfile", "write_depfile"} =>
              \E j \in 1..(k - 1) : run.steps[j] = Step("codegen_generate", "CIRF_OK")

\* C14 as claimed: the run ends with exit code 1 whenever a required flag
\* is missing (-c in every mode; -n, -o and -H in generation mode), the
\* config fails to load, code generation fails or the depfile cannot be
\* opened, and with exit code 0 otherwise; code generation is attempted only
\* after the config loaded, the depfile is written only after code
\* generation succeeded.
C14_ExitCodeByListedCauses ==
    last.op = "main" =>
        LET given == { f \in {"-n", "-c", "-o", "-H", "-d", "-M"} : Given(last.argv, f) }
        IN  /\ last.run.exit =
                  IF RequiredFlagMissing(given) \/ SomeStepFailed(last.run)
                  THEN 1 ELSE 0
            /\ StepsInOrder(last.run)

\* the command line read from the left: the options given before the first
\* -h or -v ("info"), before the first argument that is not an option or the
\* first option without its value ("bad"), or up to the end
RECURSIVE ReadArgs(_, _, _)
ReadArgs(argv, i, given) ==
    IF i > Len(argv) THEN [stop |-> "end", given |-> given]
    ELSE IF argv[i] \in {"-h", "--help", "-v", "--version"}
    THEN [stop |-> "info", given |-> given]
    ELSE IF argv[i] \in {"-d", "--deps"}
    THEN ReadArgs(argv, i + 1, given \cup {"-d"})
    ELSE IF argv[i] \in {"-n", "-c", "-o", "-H", "-M"} /\ i < Len(argv)
    THEN ReadArgs(argv, i + 2, given \cup {argv[i]})
    ELSE [stop |-> "bad", given |-> given]

\* C14 amended: the run ends with exit code 0 and does nothing else when -h
\* or -v is read before any bad argument; otherwise with exit code 1
\* whenever an argument is not an option or an option lacks its value, a
\* required flag is missing, the config fails to load, code generation
\* fails or the depfile cannot be opened, and with exit code 0 otherwise;
\* the order of loading, generating and writing the depfile is as claimed.
C14_ExitCode ==
    last.op = "main" =>
        LET r == ReadArgs(last.argv, 1, {})
        IN  /\ last.run.exit =
                  IF r.stop = "info" THEN 0
                  ELSE IF \/ r.stop = "bad"
                          \/ RequiredFlagMissing(r.given)
                          \/ SomeStepFailed(last.run)
                  THEN 1 ELSE 0
            /\ r.stop = "info" => last.run.steps = <<>>
            /\ StepsInOrder(last.run)
            /\ (/\ r.stop = "end" /\ ~RequiredFlagMissing(r.given)
                /\ "-d" \notin r.given /\ "-M" \in r.given
                /\ ~SomeStepFailed(last.run))
               => last.run.steps[Len(last.run.steps)].call = "write_depfile"

\* every flag is given, the config loads, both files are generated, and the
\* depfile cannot be opened
C14_Witness ==
    /\ last.op = "main"
    /\ last.run.exit = 1
    /\ Len(last.run.steps) = 3
    /\ last.run.steps[2] = Step("codegen_generate", "CIRF_OK")
    /\ last.run.steps[3] = Step("fopen_depfile", "NULL")

\* ---------------------------------------------------------------- C15
\* the list the indexing pass builds for the loaded tree
FolderInfoList ==
    collect_folder_info(Tree, ROOT, [list |-> <<>>, file_idx |-> 0, folder_idx |-> 0]).list

\* the index the pass gave to a folder
SelfIndexOf(list, folder) ==
    (CHOOSE i \in SeqRange(list) : i.folder = folder).self_index

\* C15: after the indexing pass the direct children of every folder F carry
\* exactly the indices children_start(F) .. children_start(F) +
\* children_count(F) - 1.
C15_ChildrenIndexRangeContiguous ==
    last.op = "codegen_generate" =>
        \A info \in SeqRange(FolderInfoList) :
            { SelfIndexOf(FolderInfoList, c) :
                c \in SeqRange(folders[info.folder].children) }
              = info.children_start .. (info.children_start + info.children_count - 1)

\* ---------------------------------------------------------------- C16
\* the position of an element in a list that holds it once
PositionIn(list, x) == CHOOSE i \in 1..Len(list) : list[i] = x

\* C16: the blob index in the record of a file is the index under which the
\* blob pass emitted the bytes of that same file, and it is files_start of
\* the file's folder plus the file's position in the folder; the parent
\* pointer of the record names the folder that owns the file.  Every file
\* of the tree has a record.
C16_FileRecordNamesItsBlobAndFolder ==
    last.op = "codegen_generate" =>
        /\ \A f \in 1..Len(files) :
              \E arr \in SeqRange(img.out.arrays) :
                  \E item \in SeqRange(arr.items) : item.file = f
        /\ \A arr \in SeqRange(img.out.arrays) :
              \A item \in SeqRange(arr.items) :
                  LET owner == files[item.file].parent
                      info == CHOOSE i \in SeqRange(FolderInfoList) : i.folder = owner
                      blobs == { d \in SeqRange(img.out.data) : d.index = item.data }
                  IN  /\ blobs # {}
                      /\ \A d \in blobs :
                            /\ d.file = item.file
                            /\ c_byte_array(d.bytes) = files[item.file].data
                      /\ item.data = info.files_start
                                       + PositionIn(folders[owner].files, item.file) - 1
                      /\ \E rec \in SeqRange(img.out.folders) :
                            rec.sym = item.parent /\ rec.folder = owner

\* a file in a folder that is not the first one with files: its blob index
\* is not its position in its folder
C16_Witness ==
    /\ last.op = "codegen_generate"
    /\ \E arr \in SeqRange(img.out.arrays) :
          \E item \in SeqRange(arr.items) :
              /\ item.data > 0
              /\ files[item.file].parent # ROOT
              /\ PositionIn(folders[files[item.file].parent].files, item.file) = 1
              /\ files[item.file].size > 0

\* ---------------------------------------------------------------- C17
\* folder a is a proper ancestor of folder d in the loaded tree
RECURSIVE IsAncestorOf(_, _)
IsAncestorOf(a, d) ==
    /\ folders[d].parent # NULL
    /\ (folders[d].parent = a \/ IsAncestorOf(a, folders[d].parent))

\* C17: every folder has one record in the generated source; the record of
\* a folder comes after the records of all of its descendant folders, and
\* the record of the root is the last folder record.
C17_FolderRecordsChildrenBeforeParents ==
    last.op = "codegen_generate" =>
        LET recs == img.out.folders
        IN  /\ Len(recs) = Len(folders)
            /\ \A f \in 1..Len(folders) : \E e \in 1..Len(recs) : recs[e].folder = f
            /\ \A e1, e2 \in 1..Len(recs) :
                  IsAncestorOf(recs[e1].folder, recs[e2].folder) => e2 < e1
            /\ recs[Len(recs)].folder = ROOT

\* a folder with a child folder and a later sibling: the grandchild's record
\* is written first, the root's last
C17_Witness ==
    /\ last.op = "codegen_generate"
    /\ Len(img.out.folders) = 4
    /\ \E e \in 2..3 :
          /\ IsAncestorOf(img.out.folders[e].folder, img.out.folders[e - 1].folder)
          /\ img.out.folders[e].folder # ROOT

\* ---------------------------------------------------------------- C18
\* the identifier sym is introduced before position p of the unit w
DeclaredBefore(w, p, sym) == \E j \in 1..(p - 1) : w[j].sym = sym

\* the positions of the unit w that introduce sym with at least the references refs
WrittenAt(w, sym, refs) ==
    { p \in 1..Len(w) : w[p].sym = sym /\ refs \subseteq w[p].refs }

\* C18: every file record (inside its files array), file alias and folder
\* record of the generated source is written with the identifiers of its
\* owning or parent folder, first child folder, files array, data blob and
\* metadata array, and each identifier a declaration mentions is introduced
\* earlier in the translation unit (the header's externs, then the source).
C18_ReferencesDeclaredEarlier ==
    last.op = "codegen_generate" =>
        LET out == img.out
        IN  /\ \A p \in 1..Len(out.w) :
                  \A sym \in out.w[p].refs : DeclaredBefore(out.w, p, sym)
            /\ \A arr \in SeqRange(out.arrays) :
                  WrittenAt(out.w, arr.sym,
                      UNION { { data_symbol(Name, item.data), item.parent }
                              \cup (IF item.metadata >= 0
                                    THEN { meta_symbol(Name, item.metadata) } ELSE {}) :
                              item \in SeqRange(arr.items) }) # {}
            /\ \A alias \in SeqRange(out.aliases) :
                  WrittenAt(out.w, alias.sym, { alias.array }) # {}
            /\ \A rec \in SeqRange(out.folders) :
                  WrittenAt(out.w, rec.sym,
                      ({ rec.parent, rec.children, rec.files } \ { NULL_LIT })
                      \cup (IF rec.metadata >= 0
                            THEN { meta_symbol(Name, rec.metadata) } ELSE {})) # {}

\* a folder record that names its parent, its first child, its files array
\* and a metadata array, and a file record with metadata in a child folder
C18_Witness ==
    /\ last.op = "codegen_generate"
    /\ \E rec \in SeqRange(img.out.folders) :
          /\ NULL_LIT \notin { rec.parent, rec.children, rec.files }
          /\ rec.metadata >= 0
    /\ \E arr \in SeqRange(img.out.arrays) :
          \E item \in SeqRange(arr.items) :
              item.metadata >= 0 /\ item.parent # make_dir_symbol(Name, <<>>)

\* ---------------------------------------------------------------- C19
\* the place an entry with this path or target names under a parent folder
\* with virtual path P
PlaceOf(P, path) == IF P = <<>> THEN path ELSE P \o <<SLASH>> \o path

\* the folder reached from a folder of the loaded tree by a list of names
RECURSIVE FolderAlong(_, _)
FolderAlong(folder, names) ==
    IF folder = NULL \/ names = <<>> THEN folder
    ELSE LET next == { c \in SeqRange(folders[folder].children) :
                          folders[c].name = Head(names) }
         IN  IF next = {} THEN NULL
             ELSE FolderAlong(CHOOSE c \in next : TRUE, Tail(names))

FolderPlacedAt(place) == FolderAlong(ROOT, Components(place)) # NULL

FilePlacedAt(place) ==
    LET ls == strrchr_slash(place, Len(place))
        folder == FolderAlong(ROOT, Components(SubSeq(place, 1, ls - 1)))
    IN  /\ folder # NULL
        /\ \E f \in SeqRange(folders[folder].files) :
              files[f].name = SubSeq(place, ls + 1, Len(place))

\* C19 (as claimed): after a successful load, for every file, folder and
\* glob entry processed under a parent folder with virtual path P, at any
\* depth, the tree holds the folder, the file, or each file the glob added
\* at the entry's own path or target when P is empty and at P, "/" and the
\* path or target otherwise; a file entry without a directory part is a
\* file of P itself.
C19_EntryPlacedUnderParent ==
    (last.op = "config_load" /\ last.ret # NULL) =>
        \A k \in 1..Len(last.log) :
            LET e == last.log[k]
            IN  /\ (e.ev = "entry" /\ e.entry.type = "folder")
                      => FolderPlacedAt(PlaceOf(e.path, e.entry.path))
                /\ (e.ev = "entry" /\ e.entry.type = "file")
                      => FilePlacedAt(PlaceOf(e.path, e.entry.path))
                /\ (e.ev = "match" /\ e.added)
                      => FilePlacedAt(
                            PlaceOf(PlaceOf(last.log[EntryBefore(last.log, k)].path,
                                            e.entry.target),
                                    path_basename(e.path)))

\* ---------------------------------------------------------------- C20
\* the folder of the tree T reached from the root by a list of names
RECURSIVE FolderIn(_, _, _)
FolderIn(T, folder, names) ==
    IF folder = NULL \/ names = <<>> THEN folder
    ELSE LET next == { c \in SeqRange(T.folders[folder].children) :
                          T.folders[c].name = Head(names) }
         IN  IF next = {} THEN NULL
             ELSE FolderIn(T, CHOOSE c \in next : TRUE, Tail(names))

\* the string members of the metadata object of an entry, in order
StringMetadata(entry) ==
    LET kept == SelectSeq(entry.metadata, LAMBDA m : m.string)
    IN  [i \in 1..Len(kept) |-> << kept[i].key, kept[i].value >>]

\* the calls of the callback made for the same glob entry as call k
SameGlob(log, i, k) ==
    /\ log[i].ev = "match" /\ log[k].ev = "match"
    /\ EntryBefore(log, i) = EntryBefore(log, k)

\* C20: a call of the glob callback that inserts a file inserts exactly one,
\* a direct file of the folder the full target names, named by the basename
\* of the matched path, with the matched real path as source_path and the
\* string metadata of the glob entry, and changes no other file; a call for
\* a basename an earlier match of the same glob entry had inserts nothing
\* and leaves the tree as it was; the first match with a basename is
\* inserted unless the target folder already had a file of that name; after
\* a successful load the inserted file is still there.
C20_GlobFileInTargetFirstBasenameKept ==
    last.op = "config_load" =>
        \A k \in 1..Len(last.log) :
            last.log[k].ev = "match" =>
                LET e == last.log[k]
                    name == path_basename(e.path)
                    folder == FolderIn(e.after, ROOT, Components(e.target))
                    f == Len(e.after.files)
                    earlier == { i \in 1..(k - 1) :
                                   /\ SameGlob(last.log, i, k)
                                   /\ path_basename(last.log[i].path) = name }
                    had == LET t == FolderIn(e.before, ROOT, Components(e.target))
                           IN  /\ t # NULL
                               /\ \E x \in SeqRange(e.before.folders[t].files) :
                                     e.before.files[x].name = name
                IN  /\ e.added =>
                          /\ Len(e.after.files) = Len(e.before.files) + 1
                          /\ SubSeq(e.after.files, 1, f - 1) = e.before.files
                          /\ folder # NULL
                          /\ e.after.files[f].parent = folder
                          /\ \E x \in SeqRange(e.after.folders[folder].files) : x = f
                          /\ e.after.files[f].name = name
                          /\ e.after.files[f].source_path = e.path
                          /\ e.after.files[f].metadata = StringMetadata(e.entry)
                          /\ last.ret # NULL =>
                                /\ files[f].name = name
                                /\ files[f].source_path = e.path
                                /\ files[f].metadata = StringMetadata(e.entry)
                                /\ files[f].parent = folder
                                /\ folders[folder].path = e.after.folders[folder].path
                    /\ ~e.added => e.after = e.before
                    /\ earlier # {} => ~e.added
                    /\ (earlier = {} /\ ~had) => e.added

\* a glob entry with metadata and a target whose matches c and h/c share a
\* basename: the first is inserted, the second is not
C20_Witness ==
    /\ last.op = "config_load" /\ last.ret # NULL
    /\ \E i, k \in 1..Len(last.log) :
          /\ i < k /\ SameGlob(last.log, i, k)
          /\ path_basename(last.log[i].path) = path_basename(last.log[k].path)
          /\ last.log[i].added /\ ~last.log[k].added
          /\ last.log[i].target # <<>>
          /\ StringMetadata(last.log[i].entry) # <<>>

\* ---------------------------------------------------------------- C21
\* the files of a subtree in pre-order: the folder's own files, then the
\* files of each child subtree in order
RECURSIVE FilesPreOrder(_, _)
RECURSIVE FilesPreOrderOf(_, _)
FilesPreOrderOf(T, ids) ==
    IF ids = <<>> THEN <<>>
    ELSE FilesPreOrder(T, Head(ids)) \o FilesPreOrderOf(T, Tail(ids))

FilesPreOrder(T, folder) ==
    T.folders[folder].files \o FilesPreOrderOf(T, T.folders[folder].children)

\* the pre-order positions of the files of B that are not loaded and whose
\* load fails
FailingAt(B, malloc0_null) ==
    LET P == FilesPreOrder(B, ROOT)
    IN  { i \in 1..Len(P) :
            /\ ~B.files[P[i]].loaded
            /\ vfs_load_file_data(B, P[i], malloc0_null).err # "CIRF_OK" }

\* C21: vfs_load_all_data leaves a loaded file as it is, loads the others
\* in pre-order up to the first one whose load fails, returns the error of
\* that load and leaves that file and every later one as they were; without
\* a failing file it returns CIRF_OK with every file loaded.  A load pass
\* that fails inside config_load makes config_load return the error of the
\* pass and hand no configuration to the caller.
C21_LoadAllStopsAtFirstFailure ==
    /\ last.op = "vfs_load_all_data" =>
          LET B == last.before
              P == FilesPreOrder(B, ROOT)
              bad == FailingAt(B, last.malloc0_null)
              stop == IF bad = {} THEN Len(P) + 1
                      ELSE CHOOSE i \in bad : \A j \in bad : i <= j
              loadedFile(f) == vfs_load_file_data(B, f, last.malloc0_null).T.files[f]
          IN  /\ folders = B.folders
              /\ Len(files) = Len(B.files)
              /\ { P[i] : i \in 1..Len(P) } = 1..Len(B.files)
              /\ last.err = IF bad = {} THEN "CIRF_OK"
                            ELSE vfs_load_file_data(B, P[stop], last.malloc0_null).err
              /\ \A i \in 1..Len(P) :
                    files[P[i]] = IF i < stop /\ ~B.files[P[i]].loaded
                                  THEN loadedFile(P[i]) ELSE B.files[P[i]]
              /\ \A i \in 1..Len(P) :
                    (i < stop /\ ~B.files[P[i]].loaded) =>
                        /\ files[P[i]].loaded
                        /\ files[P[i]].data = DiskContent(files[P[i]].source_path)
    /\ (last.op = "config_load" /\ last.pass # "") =>
          /\ last.pass # "CIRF_OK" <=> FailingAt(last.built, last.malloc0_null) # {}
          /\ last.pass # "CIRF_OK" =>
                /\ last.ret = NULL
                /\ last.err = last.pass
                /\ Tree = vfs_create_root

\* a pass over a tree whose pre-order differs from the order of insertion:
\* a file loaded before the call, a file the pass loads, the file whose load
\* fails, and a loadable file after it that stays unloaded
C21_Witness ==
    /\ last.op = "vfs_load_all_data"
    /\ LET B == last.before
           P == FilesPreOrder(B, ROOT)
       IN  \E i \in FailingAt(B, last.malloc0_null) :
              /\ \E j \in 1..(i - 1) : ~B.files[P[j]].loaded /\ files[P[j]].loaded
              /\ \E j \in (i + 1)..Len(P) :
                    /\ ~files[P[j]].loaded
                    /\ files[P[j]].source_path \in DiskFiles
              /\ \E f \in 1..Len(B.files) : B.files[f].loaded
              /\ \E j \in 1..(Len(P) - 1) : P[j] > P[j + 1]

\* ---------------------------------------------------------------- C22
\* strings joined by newlines
RECURSIVE JoinLines(_)
JoinLines(lines) ==
    IF lines = <<>> THEN <<>>
    ELSE IF Len(lines) = 1 THEN lines[1]
    ELSE lines[1] \o << "^J" >> \o JoinLines(Tail(lines))

\* what config_load does with the manifest and the directory order of the
\* last call, on a platform with the given malloc(0)
SameLoad(malloc0_null) ==
    config_load(last.json, ConfigPath, last.order, malloc0_null)

\* C22: config_load_deps fails exactly when the interpretation inside
\* config_load fails, with the same error; otherwise it hands over the tree
\* config_load has built when it starts its load pass, with no file data
\* loaded.  config_get_source_paths returns the source paths of all files,
\* each file once, in pre-order, joined by newlines with no newline at the end.
C22_DepsTreeAndSourcePaths ==
    /\ last.op = "config_load_deps" =>
          /\ \A malloc0_null \in BOOLEAN :
                /\ SameLoad(malloc0_null).pass = "" =>
                      /\ last.ret = NULL
                      /\ last.err = SameLoad(malloc0_null).err
                /\ SameLoad(malloc0_null).pass # "" =>
                      /\ last.ret = ROOT
                      /\ last.err = "CIRF_OK"
                      /\ Tree = SameLoad(malloc0_null).built
          /\ \A f \in FileIds :
                ~files[f].loaded /\ files[f].data = <<>> /\ files[f].size = 0
    /\ last.op = "config_get_source_paths" =>
          LET P == FilesPreOrder(Tree, ROOT)
          IN  /\ Len(P) = Len(files)
              /\ { P[i] : i \in 1..Len(P) } = FileIds
              /\ last.ret = JoinLines([i \in 1..Len(P) |-> files[P[i]].source_path])

\* the source paths of three files, one of them in a folder and inserted
\* first, the others added by a glob entry
C22_Witness ==
    /\ last.op = "config_get_source_paths"
    /\ Len(files) >= 3
    /\ files[1].parent # ROOT
    /\ \E f \in FileIds : files[f].parent = ROOT /\ files[f].metadata # <<>>
    /\ \E i \in 1..Len(last.ret) : last.ret[i] = "^J"

\* ---------------------------------------------------------------- C23
\* the folder of the loaded tree that the folder object at address a stands for
SourceFolderOf(a) ==
    CHOOSE v \in FolderIds : folders[v].path = FolderAt(img, a).path

\* the paths of the files the visitor was called with, in order
VisitedPaths(visited) == [i \in 1..Len(visited) |-> FileAt(img, visited[i]).path]

PathsOf(ids) == [i \in 1..Len(ids) |-> files[ids[i]].path]

\* C23 (as claimed): cirf_foreach_file_recursive calls the visitor once for
\* every file of the subtree of the folder, in pre-order, as many times as
\* cirf_count_files counts; cirf_count_files is the number of files of the
\* subtree; cirf_foreach_file calls it for the folder's own files only.
C23_ForeachVisitsSubtreeInPreOrder ==
    /\ last.op = "cirf_foreach_file_recursive" =>
          /\ VisitedPaths(last.visited)
                = PathsOf(FilesPreOrder(Tree, SourceFolderOf(last.folder)))
          /\ Len(last.visited) = cirf_count_files(img, last.folder)
    /\ last.op = "cirf_count_files" =>
          last.ret = Len(FilesPreOrder(Tree, SourceFolderOf(last.folder)))
    /\ last.op = "cirf_foreach_file" =>
          VisitedPaths(last.visited) = PathsOf(folders[SourceFolderOf(last.folder)].files)

\* ---------------------------------------------------------------- C24
\* C24 (as claimed): cirf_find_folder(root, path) on the generated tree is
\* the folder reached from the root by the non-empty segments of path, each
\* matched against the names of the child folders, and not-found when a
\* segment has no match (so slashes added in front, at the end or doubled
\* change nothing); looked up by its own path every folder is found.
C24_FindFolderWalksSegments ==
    /\ last.op = "cirf_find_folder" =>
          LET v == FolderAlong(ROOT, Components(last.path))
          IN  IF v = NULL THEN last.ret = NULL
              ELSE /\ last.ret # NULL
                   /\ FolderAt(img, last.ret).path = folders[v].path
    /\ img.ok =>
          \A f \in FolderIds :
              LET a == cirf_find_folder(img, img.root, folders[f].path)
              IN  a # NULL /\ FolderAt(img, a).path = folders[f].path

\* ---------------------------------------------------------------- C25
\* the value of the earliest pair of the list with the key (<<>>: none)
Earliest(list, key) ==
    LET at == { i \in 1..Len(list) : list[i][1] = key }
    IN  IF at = {} THEN <<>>
        ELSE << list[CHOOSE i \in at : \A j \in at : i <= j][2] >>

\* C25 (as claimed): vfs_add_metadata puts the pair at the end of the list
\* and changes the lookup result of no key the list already had; the
\* lookups vfs_get_metadata on the list and cirf_get_metadata on the
\* generated array return the value of the earliest pair added with the key.
C25_MetadataAppendFirstMatch ==
    /\ last.op = "vfs_add_metadata" =>
          /\ folders[ROOT].metadata = Append(last.before, << last.key, last.value >>)
          /\ \A key \in MetaKeys :
                Earliest(last.before, key) # <<>> =>
                    vfs_get_metadata(folders[ROOT].metadata, key)
                        = vfs_get_metadata(last.before, key)
    /\ last.op = "vfs_get_metadata" =>
          last.ret = Earliest(folders[ROOT].metadata, last.key)
    /\ last.op = "cirf_get_metadata" =>
          last.ret = Earliest(folders[ROOT].metadata, last.key)

\* ---------------------------------------------------------------- C26
\* C26: vfs_add_file(parent, name, source) on a folder that already holds
\* a file named name returns NULL and changes nothing in the tree: every
\* folder and every file, with its source_path, mime, metadata and position
\* in its list, is as before the call.
C26_DuplicateFileLeavesTree ==
    [][ (/\ last'.op = "vfs_add_file"
         /\ \E i \in 1..Len(folders[last'.parent].files) :
                files[folders[last'.parent].files[i]].name = last'.path)
        => (last'.ret = NULL /\ folders' = folders /\ files' = files) ]_vars

\* a duplicate was refused whose source differs from the one of the file
\* already in the folder, which is not the only file of the folder
C26_Witness ==
    /\ last.op = "vfs_add_file" /\ last.ret = NULL
    /\ \E i \in 1..Len(folders[last.parent].files) :
          /\ files[folders[last.parent].files[i]].name = last.path
          /\ files[folders[last.parent].files[i]].source_path # last.source_path
          /\ i < Len(folders[last.parent].files)

\* ---------------------------------------------------------------- C27
\* C27 (as claimed): on the generated tree cirf_find_file finds a file for a
\* path exactly when vfs_find_file finds one on the tree it was generated
\* from, and then it is the file with the same full path; this includes
\* paths that name both a file and a folder of the same parent.
C27_RuntimeLookupAgreesWithBuilder ==
    last.op = "cirf_find_file" =>
        LET file == vfs_find_file(Tree, ROOT, last.path)
        IN  IF file = NULL THEN last.file = NullFile
            ELSE /\ last.file # NullFile
                 /\ FileAt(img, last.file).path = files[file].path

\* ---------------------------------------------------------------- C28
\* C28 (as claimed): in the generated source no identifier is defined for
\* two entities: the symbols of the folder records, of the per-folder files
\* arrays and of the file pointers are pairwise distinct.
C28_GeneratedSymbolsUnique ==
    last.op = "codegen_generate" =>
        LET syms == DefinedSymbols(generate_source(Tree))
        IN  \A i, j \in 1..Len(syms) : syms[i] = syms[j] => i = j

\* ---------------------------------------------------------------- C29
\* C29 (as claimed): in the tree a manifest produced, the name of every
\* folder other than the root and of every file is non-empty and has no '/'.
C29_NamesNonEmptyWithoutSlash ==
    (last.op \in {"config_load", "config_load_deps"} /\ last.ret # NULL) =>
        /\ \A f \in FolderIds \ {ROOT} :
              /\ folders[f].name # <<>>
              /\ \A i \in 1..Len(folders[f].name) : folders[f].name[i] # SLASH
        /\ \A i \in FileIds :
              /\ files[i].name # <<>>
              /\ \A k \in 1..Len(files[i].name) : files[i].name[k] # SLASH

\* ---------------------------------------------------------------- C30
\* the positions in the mount list, head first, whose prefix starts the path
MatchingMounts(path) == { i \in 1..Len(mounts) : IsPrefix(mounts[i].prefix, path) }

\* what the mount at position i finds for the path without its prefix
FoundBy(i, path) ==
    cirf_find_file(img, mounts[i].root,
                   SubSeq(path, Len(mounts[i].prefix) + 1, Len(path)))

\* C30: cirf_resolve_file answers with the first mount of the list whose
\* prefix matches and with no other: when that mount does not hold the rest
\* of the path the result is not-found, whatever the mounts after it hold
\* and however long their prefixes are.
C30_ResolveNoFallThrough ==
    (last.op = "cirf_resolve_file" /\ MatchingMounts(last.path) # {}) =>
        LET first == CHOOSE i \in MatchingMounts(last.path) :
                         \A j \in MatchingMounts(last.path) : i <= j
        IN  /\ FoundBy(first, last.path) = NullFile => last.file = NullFile
            /\ last.file \in { NullFile, FoundBy(first, last.path) }

\* not-found although a mount made earlier, with a longer matching prefix,
\* holds the file
C30_Witness ==
    /\ last.op = "cirf_resolve_file"
    /\ last.file = NullFile
    /\ \E i, j \in MatchingMounts(last.path) :
          /\ i < j
          /\ mounts[j].t < mounts[i].t
          /\ Len(mounts[j].prefix) > Len(mounts[i].prefix)
          /\ FoundBy(j, last.path) # NullFile

====
